---- MODULE Spec2Model ----
(***************************************************************************)
(* license_tracker: the waterfall resolution engine and its cache.         *)
(*                                                                         *)
(*   Spec        one WaterfallResolver.resolve_batch call: the tasks of    *)
(*               the unique identifiers interleave at their awaits         *)
(*   SpecGitHub  one GitHubResolver._fetch_license lookup, request by      *)
(*               request                                                   *)
(*   SpecSem     resolve_batch's semaphore with more tasks than slots      *)
(*   SpecClose   the sessions of the resolvers and WaterfallResolver.close *)
(*   SpecCache   the calls of one LicenseCache on its sqlite table         *)
(*   SpecCacheBatch  the writes of set and set_batch, default TTL included *)
(*   SpecCacheTxn    the cache's writes statement by statement             *)
(*   SpecCli     cli._scan_and_resolve over the cache and the resolver     *)
(*   SpecPyPI    one PyPIResolver.resolve call                             *)
(*   SpecCheck   the check command of cli.py                               *)
(*   SpecSPDX    one SPDXResolver.resolve call                             *)
(*   SpecInit    WaterfallResolver's constructor and one resolve call      *)
(*   SpecSemLive resolve_batch's semaphore under fair scheduling           *)
(*   SpecGitHubLive  SpecGitHub with every request and wake-up taken       *)
(***************************************************************************)
EXTENDS Integers, Sequences, FiniteSets, TLC

VARIABLES
    github_resolver, \* "GitHubResolver" or "injected": the constructor's argument
    specs,           \* resolve_batch's argument, a list of PackageSpec
    unique_specs,    \* list(set(specs))
    phase,           \* where resolve_batch is: "call", "gather", "returned", "raised"
    tasks,           \* one bounded_resolve coroutine per element of unique_specs
    sem,             \* the value of the asyncio.Semaphore
    resolve_calls,   \* PackageSpec -> number of self.resolve calls made for it
    result_dict,     \* the mapping resolve_batch returns
    session,         \* resolver -> its _session
    created,         \* resolver -> number of ClientSession objects it has created
    closes,          \* resolver -> per created session, the number of its close() calls
    cpc,             \* where the owner of the WaterfallResolver is (SpecClose)
    close_calls,     \* number of WaterfallResolver.close calls begun
    fpc,             \* where _fetch_license is (SpecGitHub)
    retry_count,     \* _fetch_license's retry_count
    requests,        \* number of session.get requests issued by the lookup
    responses,       \* the responses the lookup has received, in order
    sleeps,          \* the asyncio.sleep durations of the lookup, in order
    fetched,         \* what _fetch_license returned
    waiting,         \* SpecSem: tasks blocked in "async with sem"
    running,         \* SpecSem: tasks inside "async with sem"
    finished,        \* SpecSem: tasks that left "async with sem"
    failed,          \* SpecSemLive: those of them whose resolve raised or returned None
    db,              \* the license_cache table: (name, version) -> row
    now,             \* datetime.now(UTC), in days
    ttl_days,        \* LicenseCache.ttl_days
    cache_op,        \* the LicenseCache call in progress and what it returns
    txn,             \* SpecCacheTxn: the open transaction of a writing process
    cli,             \* SpecCli: the last _scan_and_resolve call, its locals and result
    enrich_call,     \* SpecGitHub: the enrich call, its argument and what it returned
    pypi,            \* SpecPyPI: the PyPIResolver.resolve call
    check_run,       \* SpecCheck: the run of the check command and how it ended
    spdx_call,       \* SpecSPDX: the SPDXResolver.resolve call
    waterfall        \* SpecInit: the WaterfallResolver a constructor call built

vars == <<github_resolver, specs, unique_specs, phase, tasks, sem, resolve_calls,
          result_dict, session, created, closes, cpc, close_calls, fpc,
          retry_count, requests, responses, sleeps, fetched, waiting, running,
          finished, failed, db, now, ttl_days, cache_op, txn, cli,
          enrich_call, pypi, check_run, spdx_call, waterfall>>

batchVars == <<github_resolver, specs, unique_specs, phase, tasks, resolve_calls,
               result_dict>>
fetchVars == <<fpc, retry_count, requests, responses, sleeps, fetched>>
semVars == <<waiting, running, finished, failed>>
closeVars == <<cpc, close_calls>>
sessionVars == <<session, created, closes>>
cacheVars == <<db, now, ttl_days, cache_op>>
lateVars == <<check_run, spdx_call, waterfall>>
\* variables of one specification only, idle in the others
otherVars == <<txn, cli, enrich_call, pypi, check_run, spdx_call, waterfall>>

(***************************************************************************)
(* Bounds of the model.                                                    *)
(***************************************************************************)
MaxBatch == 3      \* longest list handed to resolve_batch
MaxTasks == 52     \* SpecSem: most unique identifiers in a batch
MaxSessions == 2   \* SpecClose: most sessions one resolver creates
MaxCloses == 2     \* SpecClose: most close calls
MaxTime == 1       \* SpecCache: days the clock advances
MaxPackages == 2   \* SpecCache: longest list handed to get_batch
MaxItems == 2      \* SpecCache: most items of a dict handed to set_batch
MaxCorrupt == 1    \* SpecCache: most damaged rows at a time

(***************************************************************************)
(* models.py: values.                                                      *)
(***************************************************************************)
None == [kind |-> "None"]
Fault == [kind |-> "Exception"]

PackageSpec(name, version, source) ==
    [name |-> name, version |-> version, source |-> source]

LicenseLink(spdx_id, name, url, is_verified_file) ==
    [spdx_id |-> spdx_id, name |-> name, url |-> url,
     is_verified_file |-> is_verified_file]

\* PackageMetadata with every field given
PackageMetadataOf(name, version, description, homepage, repository_url, author, licenses, is_root_project) ==
    [kind |-> "PackageMetadata", name |-> name, version |-> version,
     description |-> description, homepage |-> homepage,
     repository_url |-> repository_url, author |-> author,
     licenses |-> licenses, is_root_project |-> is_root_project]

\* PackageMetadata with the defaults of the dataclass for the other fields
PackageMetadata(name, version, repository_url, licenses) ==
    PackageMetadataOf(name, version, "<None>", "<None>", repository_url, "<None>",
                      licenses, FALSE)

Url(netloc, parts, git) ==
    [kind |-> "url", netloc |-> netloc, parts |-> parts, git |-> git]

\* an Optional[str] that is None
NoneStr == "<None>"

\* Python truthiness of an Optional[str]
Truthy(s) == s # NoneStr /\ s # ""

(***************************************************************************)
(* resolvers/pypi.py: PyPIResolver.                                        *)
(* A response of the index is [fault, status, json_ok, data]: fault is the *)
(* exception session.get raised ("none" when it raised nothing), json_ok   *)
(* whether response.json() parsed, data the parsed payload.  A member of a  *)
(* JSON object is Missing when the object has no such key and NoneStr when *)
(* it is null; a classifier is the list of the parts " :: " separates.     *)
(***************************************************************************)
Missing == "<missing>"

\* dict.get(key, default), on the member's value
GetOr(value, default) == IF value = Missing THEN default ELSE value

\* the "info" object; repository_url is what _extract_repository_url finds in
\* its project_urls
Info(name, version, summary, author, home_page, repository_url, license, classifiers) ==
    [kind |-> "dict", name |-> name, version |-> version, summary |-> summary,
     author |-> author, home_page |-> home_page, repository_url |-> repository_url,
     license |-> license, classifiers |-> classifiers]

JsonList(items) == [kind |-> "list", items |-> items]

\* str.strip()
strip(text) ==
    CASE text = " MIT License " -> "MIT License"
      [] text = " MIT " -> "MIT"
      [] text = "  Apache-2.0" -> "Apache-2.0"
      [] text = "LicenseRef-Custom " -> "LicenseRef-Custom"
      [] text = "   " -> ""
      [] OTHER -> text

\* str.upper()
upper(text) ==
    CASE text \in {"", "UNKNOWN", "MIT"} -> text
      [] text = "unknown" -> "UNKNOWN"
      [] text = "MIT License" -> "MIT LICENSE"
      [] text = " MIT License " -> " MIT LICENSE "
      [] text = "Proprietary" -> "PROPRIETARY"
      [] text = "Apache 2.0 licensed" -> "APACHE 2.0 LICENSED"
      [] text = "MIT OR Apache-2.0" -> "MIT OR APACHE-2.0"
      [] text = "Other/Proprietary License" -> "OTHER/PROPRIETARY LICENSE"
      [] text = "Apache Software License" -> "APACHE SOFTWARE LICENSE"

LICENSE_MAP ==
    [text \in {"Apache 2.0", "Apache License 2.0", "Apache Software License",
               "Apache License, Version 2.0", "MIT License", "BSD License",
               "BSD 3-Clause License", "BSD 2-Clause License",
               "GNU General Public License v3",
               "GNU General Public License v3 (GPLv3)",
               "GNU General Public License v2",
               "GNU Lesser General Public License v3",
               "Mozilla Public License 2.0", "ISC License",
               "Python Software Foundation License"} |->
        CASE text \in {"Apache 2.0", "Apache License 2.0", "Apache Software License",
                       "Apache License, Version 2.0"} -> "Apache-2.0"
          [] text = "MIT License" -> "MIT"
          [] text \in {"BSD License", "BSD 3-Clause License"} -> "BSD-3-Clause"
          [] text = "BSD 2-Clause License" -> "BSD-2-Clause"
          [] text \in {"GNU General Public License v3",
                       "GNU General Public License v3 (GPLv3)"} -> "GPL-3.0"
          [] text = "GNU General Public License v2" -> "GPL-2.0"
          [] text = "GNU Lesser General Public License v3" -> "LGPL-3.0"
          [] text = "Mozilla Public License 2.0" -> "MPL-2.0"
          [] text = "ISC License" -> "ISC"
          [] text = "Python Software Foundation License" -> "PSF-2.0"]

\* str(SPDX.parse(license_text, validate=True)), NoneStr where the library
\* raises: it accepts an expression over SPDX identifiers
SpdxParse(license_text) ==
    IF license_text \in {"MIT", "Apache-2.0", "MIT OR Apache-2.0"} THEN license_text
    ELSE NoneStr

\* the first spdx_id of COMMON_SPDX that the loop finds in the text, NoneStr
\* when it finds none
CommonSpdxIn(license_text) ==
    CASE upper(license_text) \in {"MIT", "MIT LICENSE", "MIT OR APACHE-2.0"} -> "MIT"
      [] upper(license_text) \in {"APACHE 2.0 LICENSED"} -> "Apache-2.0"
      [] upper(license_text) \in {"PROPRIETARY", "OTHER/PROPRIETARY LICENSE",
                                  "APACHE SOFTWARE LICENSE"} -> NoneStr

\* the LicenseLink of _normalize_license_text (a bug that puts the text, not
\* the identifier, into the URL)
SpdxLinkByName(spdx_id, name) ==
    LicenseLink(spdx_id, name, "https://spdx.org/licenses/" \o name \o ".html", FALSE)
\* the LicenseLink the three branches of _normalize_license_text build
SpdxLink(spdx_id, name) ==
    LicenseLink(spdx_id, name, "https://spdx.org/licenses/" \o spdx_id \o ".html", FALSE)

_normalize_license_text(license_text) ==
    IF license_text = "" \/ upper(license_text) = "UNKNOWN" THEN None
    ELSE LET text == strip(license_text)
         IN IF text \in DOMAIN LICENSE_MAP THEN SpdxLink(LICENSE_MAP[text], text)
            ELSE IF SpdxParse(text) # NoneStr THEN SpdxLink(SpdxParse(text), text)
            ELSE IF CommonSpdxIn(text) # NoneStr THEN SpdxLink(CommonSpdxIn(text), text)
            ELSE None

_extract_license_from_classifier(classifier) ==
    IF Len(classifier) < 2 THEN None
    ELSE _normalize_license_text(strip(classifier[Len(classifier)]))

\* the list _extract_licenses returns, Fault where it raises
_extract_licenses(info) ==
    IF info.license = NoneStr THEN Fault
    ELSE LET license_field == strip(GetOr(info.license, ""))
             license_link == IF license_field # "" /\ upper(license_field) # "UNKNOWN"
                             THEN _normalize_license_text(license_field)
                             ELSE None
         IN IF license_link # None THEN JsonList(<<license_link>>)
            ELSE IF info.classifiers.kind = "null" THEN Fault
            ELSE LET classifiers == IF info.classifiers.kind = "missing" THEN <<>>
                                    ELSE info.classifiers.items
                     found == {i \in DOMAIN classifiers :
                                /\ Len(classifiers[i]) >= 2
                                /\ classifiers[i][1] = "License"
                                /\ _extract_license_from_classifier(classifiers[i]) # None}
                 IN IF found = {} THEN JsonList(<<>>)
                    ELSE JsonList(<<_extract_license_from_classifier(
                            classifiers[CHOOSE i \in found : \A j \in found : i <= j])>>)

_parse_pypi_response(data, spec) ==
    IF data.kind # "dict" THEN None
    ELSE IF data.info.kind = "null" THEN None
    ELSE LET info == IF data.info.kind = "missing"
                     THEN Info(Missing, Missing, Missing, Missing, Missing, None,
                               Missing, [kind |-> "missing"])
                     ELSE data.info
             licenses == _extract_licenses(info)
         IN IF licenses = Fault THEN None
            ELSE PackageMetadataOf(GetOr(info.name, spec.name),
                                   GetOr(info.version, spec.version),
                                   GetOr(info.summary, NoneStr),
                                   GetOr(info.home_page, NoneStr),
                                   info.repository_url,
                                   GetOr(info.author, NoneStr),
                                   licenses.items, FALSE)

\* a response whose payload has the given repository and license field only
PyPIResponse(fault, status, json_ok, repository_url, license) ==
    [fault |-> fault, status |-> status, json_ok |-> json_ok,
     data |-> [kind |-> "dict",
               info |-> Info(Missing, Missing, Missing, Missing, Missing,
                             repository_url, license, [kind |-> "missing"])]]

\* the session.get calls of one resolve (a bug that asks again after a failure)
PyPIRequestsRetrying(resps) ==
    IF resps[1].fault # "none" \/ resps[1].status # 200 THEN 2 ELSE 1
\* the session.get calls of one resolve answered by resps: the one call of
\* the body, which has no loop
PyPIRequests(resps) == 1

PyPIResolve(spec, resp) ==
    IF resp.fault # "none" THEN None
    ELSE IF resp.status = 404 THEN None
    ELSE IF resp.status # 200 THEN None
    ELSE IF ~resp.json_ok THEN None
    ELSE _parse_pypi_response(resp.data, spec)

(***************************************************************************)
(* resolvers/github.py: GitHubResolver.                                    *)
(***************************************************************************)
max_retries == 3

_parse_github_url(url) ==
    IF url.netloc \notin {"github.com", "www.github.com"} THEN None
    ELSE IF Len(url.parts) # 2 THEN None
    ELSE IF url.parts[1] = "" \/ url.parts[2] = "" THEN None
    ELSE [kind |-> "tuple", owner |-> url.parts[1], repo |-> url.parts[2]]

\* A response of the source host is [fault, status, retry_after, json]: fault
\* is TRUE when session.get raised, retry_after the Retry-After header (NoneStr
\* when there is none), json what response.json() gives ([kind |-> "invalid"]
\* when it raises).
HostResponse(fault, status, retry_after, json) ==
    [fault |-> fault, status |-> status, retry_after |-> retry_after, json |-> json]

\* int(retry_after): [ok, value], ok FALSE where int() raises ValueError
IntOf(str) ==
    CASE str = "0" -> [ok |-> TRUE, value |-> 0]
      [] str = "1" -> [ok |-> TRUE, value |-> 1]
      [] str = "5" -> [ok |-> TRUE, value |-> 5]
      [] str = "60" -> [ok |-> TRUE, value |-> 60]
      [] OTHER -> [ok |-> FALSE, value |-> 0]

Return(value) == [op |-> "return", value |-> value, wait |-> 0]
Retry(wait) == [op |-> "retry", value |-> None, wait |-> wait]

\* One pass through _fetch_license's body (a bug that waits 2^(retry_count + 1)
\* seconds and never reads Retry-After)
FetchStepDoubledBackoff(resp, rc, maxr) ==
    IF resp.fault THEN Return(None)
    ELSE IF resp.status = 403 THEN
        IF rc >= maxr THEN Return(None) ELSE Retry(2 ^ (rc + 1))
    ELSE IF resp.status = 200 THEN
        IF resp.json.kind = "invalid" THEN Return(None) ELSE Return(resp.json)
    ELSE Return(None)

\* One pass through _fetch_license's body (a bug that falls back to the
\* exponential backoff when Retry-After is not an integer)
FetchStepBackoffOnBadHeader(resp, rc, maxr) ==
    IF resp.fault THEN Return(None)
    ELSE IF resp.status = 403 THEN
        IF rc >= maxr THEN Return(None)
        ELSE IF Truthy(resp.retry_after) /\ IntOf(resp.retry_after).ok
        THEN Retry(IntOf(resp.retry_after).value)
        ELSE Retry(2 ^ rc)
    ELSE IF resp.status = 200 THEN
        IF resp.json.kind = "invalid" THEN Return(None) ELSE Return(resp.json)
    ELSE Return(None)

\* One pass through _fetch_license's body (a bug that takes every status from
\* 403 on for rate limiting)
FetchStepRetriesErrors(resp, rc, maxr) ==
    IF resp.fault THEN Return(None)
    ELSE IF resp.status >= 403 THEN
        IF rc >= maxr THEN Return(None)
        ELSE IF Truthy(resp.retry_after) THEN
            IF ~IntOf(resp.retry_after).ok THEN Return(None)
            ELSE Retry(IntOf(resp.retry_after).value)
        ELSE Retry(2 ^ rc)
    ELSE IF resp.status = 200 THEN
        IF resp.json.kind = "invalid" THEN Return(None) ELSE Return(resp.json)
    ELSE Return(None)

\* One pass through _fetch_license's body, up to its return or its recursive call.
FetchStep(resp, rc, maxr) ==
    IF resp.fault THEN Return(None)
    ELSE IF resp.status = 403 THEN
        IF rc >= maxr THEN Return(None)
        ELSE IF Truthy(resp.retry_after) THEN
            IF ~IntOf(resp.retry_after).ok THEN Return(None)
            ELSE Retry(IntOf(resp.retry_after).value)
        ELSE Retry(2 ^ rc)
    ELSE IF resp.status = 200 THEN
        IF resp.json.kind = "invalid" THEN Return(None) ELSE Return(resp.json)
    ELSE Return(None)

RECURSIVE _fetch_license(_, _, _)
_fetch_license(resps, rc, maxr) ==
    LET step == FetchStep(resps[rc + 1], rc, maxr)
    IN IF step.op = "retry" THEN _fetch_license(resps, rc + 1, maxr) ELSE step.value

\* The part of enrich after _fetch_license returned license_data (a bug that
\* fills only name, version, repository_url and licenses)
EnrichFromDropsFields(metadata, license_data) ==
    IF license_data = None THEN None
    ELSE IF license_data.kind # "dict" THEN Fault
    ELSE IF license_data.license.kind = "None" THEN Fault
    ELSE IF license_data.license.kind = "missing" THEN None
    ELSE IF ~Truthy(license_data.license.spdx_id)
            \/ ~Truthy(license_data.license.name)
            \/ ~Truthy(license_data.html_url) THEN None
    ELSE PackageMetadata(metadata.name, metadata.version, metadata.repository_url,
            <<LicenseLink(license_data.license.spdx_id, license_data.license.name,
                          license_data.html_url, TRUE)>>)

\* The part of enrich after _fetch_license returned license_data.
EnrichFrom(metadata, license_data) ==
    IF license_data = None THEN None
    ELSE IF license_data.kind # "dict" THEN Fault
    ELSE IF license_data.license.kind = "None" THEN Fault
    ELSE IF license_data.license.kind = "missing" THEN None
    ELSE IF ~Truthy(license_data.license.spdx_id)
            \/ ~Truthy(license_data.license.name)
            \/ ~Truthy(license_data.html_url) THEN None
    ELSE PackageMetadataOf(metadata.name, metadata.version, metadata.description,
            metadata.homepage, metadata.repository_url, metadata.author,
            <<LicenseLink(license_data.license.spdx_id, license_data.license.name,
                          license_data.html_url, TRUE)>>,
            metadata.is_root_project)

\* Whether enrich reaches _fetch_license, and so the session.
EnrichFetches(metadata) ==
    /\ metadata.repository_url # None
    /\ _parse_github_url(metadata.repository_url) # None

GitHubEnrich(spec, metadata, resps) ==
    IF metadata.repository_url = None THEN None
    ELSE IF _parse_github_url(metadata.repository_url) = None THEN None
    ELSE EnrichFrom(metadata, _fetch_license(resps, 0, max_retries))

(***************************************************************************)
(* resolvers/spdx.py: SPDXResolver.                                        *)
(***************************************************************************)
SPDX_NAMES ==
    [id \in {"MIT", "Apache-2.0", "GPL-3.0-only", "GPL-3.0-or-later",
             "GPL-2.0-only", "GPL-2.0-or-later", "LGPL-3.0-only",
             "LGPL-3.0-or-later", "LGPL-2.1-only", "LGPL-2.1-or-later",
             "BSD-3-Clause", "BSD-2-Clause", "ISC", "MPL-2.0", "EPL-2.0",
             "AGPL-3.0-only", "AGPL-3.0-or-later", "LGPL-2.0-only",
             "LGPL-2.0-or-later", "CC0-1.0", "Unlicense", "WTFPL"} |->
        CASE id = "MIT" -> "MIT License"
          [] id = "Apache-2.0" -> "Apache License 2.0"
          [] id = "GPL-3.0-only" -> "GNU General Public License v3.0 only"
          [] id = "GPL-3.0-or-later" -> "GNU General Public License v3.0 or later"
          [] id = "GPL-2.0-only" -> "GNU General Public License v2.0 only"
          [] id = "GPL-2.0-or-later" -> "GNU General Public License v2.0 or later"
          [] id = "LGPL-3.0-only" -> "GNU Lesser General Public License v3.0 only"
          [] id = "LGPL-3.0-or-later" -> "GNU Lesser General Public License v3.0 or later"
          [] id = "LGPL-2.1-only" -> "GNU Lesser General Public License v2.1 only"
          [] id = "LGPL-2.1-or-later" -> "GNU Lesser General Public License v2.1 or later"
          [] id = "BSD-3-Clause" -> "BSD 3-Clause \"New\" or \"Revised\" License"
          [] id = "BSD-2-Clause" -> "BSD 2-Clause \"Simplified\" License"
          [] id = "ISC" -> "ISC License"
          [] id = "MPL-2.0" -> "Mozilla Public License 2.0"
          [] id = "EPL-2.0" -> "Eclipse Public License 2.0"
          [] id = "AGPL-3.0-only" -> "GNU Affero General Public License v3.0 only"
          [] id = "AGPL-3.0-or-later" -> "GNU Affero General Public License v3.0 or later"
          [] id = "LGPL-2.0-only" -> "GNU Library General Public License v2 only"
          [] id = "LGPL-2.0-or-later" -> "GNU Library General Public License v2 or later"
          [] id = "CC0-1.0" -> "Creative Commons Zero v1.0 Universal"
          [] id = "Unlicense" -> "The Unlicense"
          [] id = "WTFPL" -> "Do What The F*ck You Want To Public License"]

\* SPDXResolver.resolve (a bug that leaves "spdx_id = spdx_id.strip()" out)
SPDXResolveUntrimmed(spec, spdx_id) ==
    IF ~Truthy(spdx_id) \/ ~Truthy(strip(spdx_id)) THEN None
    ELSE LET url == "https://spdx.org/licenses/" \o spdx_id \o ".html"
             name == IF spdx_id \in DOMAIN SPDX_NAMES THEN SPDX_NAMES[spdx_id] ELSE spdx_id
         IN PackageMetadata(spec.name, spec.version, None,
                            <<LicenseLink(spdx_id, name, url, FALSE)>>)

\* SPDXResolver.resolve(spec, spdx_id); spdx_id is NoneStr when it is left out
SPDXResolve(spec, spdx_id) ==
    IF ~Truthy(spdx_id) \/ ~Truthy(strip(spdx_id)) THEN None
    ELSE LET id == strip(spdx_id)
             url == "https://spdx.org/licenses/" \o id \o ".html"
             name == IF id \in DOMAIN SPDX_NAMES THEN SPDX_NAMES[id] ELSE id
         IN PackageMetadata(spec.name, spec.version, None,
                            <<LicenseLink(id, name, url, FALSE)>>)

(***************************************************************************)
(* resolvers/waterfall.py: WaterfallResolver.resolve.                      *)
(***************************************************************************)
\* Step 2's choice (a bug that keeps an index license once there is one)
Step2KeepLicensed(metadata, enriched) ==
    IF enriched # None
    THEN IF Len(metadata.licenses) = 0 /\ Len(enriched.licenses) > 0
            /\ enriched.licenses[1].is_verified_file
         THEN enriched
         ELSE metadata
    ELSE metadata

\* Step 2's choice (a bug that adopts whatever enrichment returned)
Step2AdoptAny(metadata, enriched) ==
    IF enriched # None THEN enriched ELSE metadata

\* Step 2's choice between the base metadata and the enriched one.
Step2(metadata, enriched) ==
    IF enriched # None
    THEN IF Len(enriched.licenses) > 0 /\ enriched.licenses[1].is_verified_file
         THEN enriched
         ELSE metadata
    ELSE metadata

\* Steps 3 and 4 (a bug that hands license-less metadata to the fallback
\* resolver, which has no SPDX id to work from)
Step3SpdxFallback(spec, enriched_metadata) ==
    IF Len(enriched_metadata.licenses) > 0
    THEN [value |-> enriched_metadata, spdx_calls |-> 0]
    ELSE [value |-> SPDXResolve(spec, NoneStr), spdx_calls |-> 1]

\* Steps 3 and 4 of resolve: the value returned and the number of calls of
\* spdx_resolver.resolve made on the way
Step3(spec, enriched_metadata) ==
    IF Len(enriched_metadata.licenses) > 0
    THEN [value |-> enriched_metadata, spdx_calls |-> 0]
    ELSE [value |-> enriched_metadata, spdx_calls |-> 0]

\* if metadata.repository_url: (a bug that enriches only license-less metadata)
HasRepositoryUrlUnlicensed(metadata) ==
    metadata.repository_url # None /\ Len(metadata.licenses) = 0

\* if metadata.repository_url:
HasRepositoryUrl(metadata) == metadata.repository_url # None

\* Step 1's check (a bug that goes on with an empty record)
AfterIndexNoAbort(spec, metadata) ==
    IF metadata = None
    THEN [op |-> "return", value |-> PackageMetadata(spec.name, spec.version, None, <<>>)]
    ELSE IF ~HasRepositoryUrl(metadata) THEN [op |-> "return", value |-> metadata]
    ELSE [op |-> "enrich", value |-> metadata]

\* What resolve does once the index step returned metadata: it returns a
\* value without calling enrich, or it calls enrich.
AfterIndex(spec, metadata) ==
    IF metadata = None THEN [op |-> "return", value |-> None]
    ELSE IF ~HasRepositoryUrl(metadata) THEN [op |-> "return", value |-> metadata]
    ELSE [op |-> "enrich", value |-> metadata]

\* resolve, run alone on the index response resp and the enrichment result
\* enriched (read only when enrichment is reached).
WaterfallResolve(spec, resp, enriched) ==
    LET metadata == PyPIResolve(spec, resp)
        next == AfterIndex(spec, metadata)
    IN IF metadata = None THEN None
       ELSE IF next.op = "return" THEN Step3(spec, next.value).value
       ELSE IF enriched = Fault THEN Fault
       ELSE Step3(spec, Step2(metadata, enriched)).value

(***************************************************************************)
(* resolvers/waterfall.py: WaterfallResolver.resolve_batch.                *)
(***************************************************************************)
SemaphoreValue == 50

\* "async with sem" (a bug that lets every task in)
CanAcquireAlways(value) == TRUE

\* "async with sem": a task enters when the semaphore's value is positive
CanAcquire(value) == value > 0

Range(seq) == {seq[i] : i \in DOMAIN seq}

\* list(set(specs)) (a bug that leaves the duplicates in)
UniqueSpecsKeepDuplicates(list) == {list}

\* list(set(specs)) (a bug that compares identifiers by name and version only)
UniqueSpecsByNameVersion(list) ==
    LET S == {list[k] : k \in {m \in DOMAIN list :
                    \A l \in 1..(m - 1) :
                        list[l].name # list[m].name \/ list[l].version # list[m].version}}
        n == Cardinality(S)
    IN {order \in [1..n -> S] : \A i, j \in 1..n : order[i] = order[j] => i = j}

\* list(set(specs)): the unique identifiers, in any order
UniqueSpecs(list) ==
    LET S == Range(list)
        n == Cardinality(S)
    IN {order \in [1..n -> S] : \A i, j \in 1..n : order[i] = order[j] => i = j}

\* asyncio.gather(*tasks) (a bug that leaves return_exceptions out)
GatherPropagating(outcomes) ==
    [raised |-> \E i \in DOMAIN outcomes : outcomes[i] = Fault, results |-> outcomes]

\* asyncio.gather(*tasks, return_exceptions=True): "raised" when it propagates
\* a task's exception, the list of results otherwise
Gather(outcomes) == [raised |-> FALSE, results |-> outcomes]

\* the loop over zip(unique_specs, results): a later pair overwrites an earlier
UniqueResultsMap(uniq, results) ==
    [spec \in Range(uniq) |->
        LET last == CHOOSE i \in DOMAIN uniq :
                        /\ uniq[i] = spec
                        /\ \A j \in DOMAIN uniq : uniq[j] = spec => j <= i
        IN IF results[last] = Fault THEN None ELSE results[last]]

\* the final loop (a bug that leaves the failed identifiers out)
ResultDictSuccessfulOnly(list, unique_results_map) ==
    [spec \in {x \in Range(list) :
                x \in DOMAIN unique_results_map /\ unique_results_map[x] # None} |->
        unique_results_map[spec]]

\* result_dict[spec] = unique_results_map.get(spec) for spec in specs
ResultDict(list, unique_results_map) ==
    [spec \in Range(list) |->
        IF spec \in DOMAIN unique_results_map THEN unique_results_map[spec] ELSE None]

(***************************************************************************)
(* The sessions of the resolvers: _get_session and close.                  *)
(* A session is the index (from 1) of the ClientSession among those its    *)
(* resolver created, 0 for None; it is closed once close() was called.     *)
(***************************************************************************)
Sessions == [session |-> session, created |-> created, closes |-> closes]

IsClosed(ss, r) == ss.closes[r][ss.session[r]] > 0

\* _get_session (a bug that leaves the test of self._session out)
GetSessionAlwaysNew(ss, r) ==
    [session |-> [ss.session EXCEPT ![r] = ss.created[r] + 1],
     created |-> [ss.created EXCEPT ![r] = @ + 1],
     closes |-> [ss.closes EXCEPT ![r] = Append(@, 0)]]

\* _get_session of PyPIResolver and of GitHubResolver: it has no await, so no
\* other coroutine runs between its test and its assignment
_get_session(ss, r) ==
    IF ss.session[r] = 0 \/ IsClosed(ss, r)
    THEN [session |-> [ss.session EXCEPT ![r] = ss.created[r] + 1],
          created |-> [ss.created EXCEPT ![r] = @ + 1],
          closes |-> [ss.closes EXCEPT ![r] = Append(@, 0)]]
    ELSE ss

SessionClose(ss, r) ==
    [ss EXCEPT !.closes = [@ EXCEPT ![r] = [@ EXCEPT ![ss.session[r]] = @ + 1]]]

PyPIClose(ss) ==
    IF ss.session["PyPI"] # 0 /\ ~IsClosed(ss, "PyPI")
    THEN [SessionClose(ss, "PyPI") EXCEPT !.session = [@ EXCEPT !["PyPI"] = 0]]
    ELSE ss

\* GitHubResolver.close (a bug that leaves the "not closed" check out)
GitHubCloseUnchecked(ss) ==
    IF ss.session["GitHub"] # 0 THEN SessionClose(ss, "GitHub") ELSE ss

GitHubClose(ss) ==
    IF ss.session["GitHub"] # 0 /\ ~IsClosed(ss, "GitHub")
    THEN SessionClose(ss, "GitHub")
    ELSE ss

SetSessions(ss) ==
    /\ session' = ss.session
    /\ created' = ss.created
    /\ closes' = ss.closes

Resolvers == {"PyPI", "GitHub"}

NoSessions ==
    /\ session = [r \in Resolvers |-> 0]
    /\ created = [r \in Resolvers |-> 0]
    /\ closes = [r \in Resolvers |-> <<>>]

(***************************************************************************)
(* The inputs of a batch.                                                  *)
(***************************************************************************)
IdentList ==
    <<PackageSpec("requests", "2.31.0", "poetry.lock"),
      PackageSpec("requests", "2.31.0", "requirements.txt"),
      PackageSpec("aiohttp", "3.9.0", "poetry.lock")>>

Idents == {IdentList[k] : k \in DOMAIN IdentList}

\* the lists handed to resolve_batch: resolve_batch reads specs through
\* set(specs) and a loop that fills a dict, so one list stands for its reorderings
SpecLists ==
    UNION {{[i \in 1..n |-> IdentList[ks[i]]] :
                ks \in {f \in [1..n -> DOMAIN IdentList] :
                            \A i, j \in 1..n : i <= j => f[i] <= f[j]}} :
           n \in 0..MaxBatch}

GitHubUrl == Url("github.com", <<"psf", "requests">>, FALSE)
GitLabUrl == Url("gitlab.com", <<"psf", "requests">>, FALSE)

SpdxMIT == LicenseLink("MIT", "MIT License", "https://spdx.org/licenses/MIT.html", FALSE)

\* what the index answers in a batch
PyPIResponses ==
    {PyPIResponse("none", 404, FALSE, None, "")}
    \cup {PyPIResponse("none", 200, TRUE, None, ""),
          PyPIResponse("none", 200, TRUE, GitLabUrl, "MIT License"),
          PyPIResponse("none", 200, TRUE, GitHubUrl, ""),
          PyPIResponse("none", 200, TRUE, GitHubUrl, "MIT License")}

JsonLicense(spdx_id, name) == [kind |-> "dict", spdx_id |-> spdx_id, name |-> name]
JsonBody(license, html_url) == [kind |-> "dict", license |-> license, html_url |-> html_url]

LicenseFileUrl == "https://github.com/psf/requests/blob/main/LICENSE"
Ok200 == HostResponse(FALSE, 200, NoneStr, JsonBody(JsonLicense("Apache-2.0", "Apache License 2.0"), LicenseFileUrl))
NullLicense200 == HostResponse(FALSE, 200, NoneStr, JsonBody(None, LicenseFileUrl))
Forbidden403 == HostResponse(FALSE, 403, NoneStr, [kind |-> "invalid"])

\* what the source host answers to the attempts of one lookup in a batch
HostScripts ==
    {[i \in 1..(max_retries + 1) |-> Ok200],
     [i \in 1..(max_retries + 1) |-> NullLicense200],
     [i \in 1..(max_retries + 1) |-> Forbidden403]}

\* what an injected github_resolver's enrich returns
InjectedEnrichResults(metadata) ==
    {None,
     PackageMetadata(metadata.name, metadata.version, metadata.repository_url, <<>>),
     PackageMetadata(metadata.name, metadata.version, metadata.repository_url, <<SpdxMIT>>)}

(***************************************************************************)
(* cache.py: LicenseCache.  The sqlite table license_cache is a function   *)
(* from its primary key (package_name, package_version) to a row, None     *)
(* where the table has no row.  Time is counted in days.                   *)
(***************************************************************************)
DEFAULT_TTL_DAYS == 30
chunk_size == 400

\* a Python value that passes through json, by its type: the v of a "dict" is
\* the list of its (key, value) items in insertion order
Py(type, v) == [py |-> type, v |-> v]
DictGet(d, k) == d.v[CHOOSE i \in DOMAIN d.v : d.v[i][1] = k][2]

\* JSON text, by its structure: the v of an "object" is the list of its
\* (name, value) members, the v of an "array" the list of its elements
Json(type, v) == [json |-> type, v |-> v]

\* dataclasses.asdict of a LicenseLink
asdict(lic) ==
    Py("dict", <<<<"spdx_id", Py("str", lic.spdx_id)>>,
                 <<"name", Py("str", lic.name)>>,
                 <<"url", Py("str", lic.url)>>,
                 <<"is_verified_file", Py("bool", lic.is_verified_file)>>>>)

RECURSIVE json_dumps(_)
json_dumps(obj) ==
    IF obj.py = "str" THEN Json("string", obj.v)
    ELSE IF obj.py = "bool" THEN Json("literal", IF obj.v THEN "true" ELSE "false")
    ELSE IF obj.py = "None" THEN Json("literal", "null")
    ELSE IF obj.py = "list"
    THEN Json("array", [i \in DOMAIN obj.v |-> json_dumps(obj.v[i])])
    ELSE Json("object", [i \in DOMAIN obj.v |-> <<obj.v[i][1], json_dumps(obj.v[i][2])>>])

\* the value json.loads gives a well-formed text: in an object a later member
\* replaces an earlier one of the same name
RECURSIVE json_value(_)
json_value(text) ==
    IF text.json = "string" THEN Py("str", text.v)
    ELSE IF text.json = "literal"
    THEN IF text.v = "null" THEN Py("None", "") ELSE Py("bool", text.v = "true")
    ELSE IF text.json = "array"
    THEN Py("list", [i \in DOMAIN text.v |-> json_value(text.v[i])])
    ELSE LET m == text.v
             firsts == {i \in DOMAIN m : \A j \in 1..(i - 1) : m[j][1] # m[i][1]}
             nth(n) == CHOOSE i \in firsts : Cardinality({j \in firsts : j < i}) = n - 1
             last(k) == CHOOSE i \in DOMAIN m :
                            /\ m[i][1] = k
                            /\ \A j \in DOMAIN m : m[j][1] = k => j <= i
         IN Py("dict", [n \in 1..Cardinality(firsts) |->
                            <<m[nth(n)][1], json_value(m[last(m[nth(n)][1])][2])>>])

Raised(exception) == [raised |-> exception, value |-> None]
Returned(value) == [raised |-> "none", value |-> value]

json_loads(text) ==
    IF text.json = "invalid" THEN Raised("JSONDecodeError")
    ELSE Returned(json_value(text))

\* LicenseLink(**lic_dict)
LicenseLinkFromDict(lic_dict) ==
    IF lic_dict.py # "dict" THEN Raised("TypeError")
    ELSE LET names == {lic_dict.v[i][1] : i \in DOMAIN lic_dict.v}
         IN IF ~(names \subseteq {"spdx_id", "name", "url", "is_verified_file"})
            THEN Raised("TypeError")
            ELSE IF ~({"spdx_id", "name", "url"} \subseteq names)
            THEN Raised("TypeError")
            ELSE Returned(LicenseLink(
                    DictGet(lic_dict, "spdx_id").v, DictGet(lic_dict, "name").v,
                    DictGet(lic_dict, "url").v,
                    IF "is_verified_file" \in names
                    THEN DictGet(lic_dict, "is_verified_file").v ELSE FALSE))

\* [LicenseLink(**lic_dict) for lic_dict in license_dicts]
LicenseLinks(license_dicts) ==
    IF license_dicts.py \in {"None", "bool"} THEN Raised("TypeError")
    ELSE IF license_dicts.py = "str"
    THEN IF license_dicts.v = "" THEN Returned(<<>>) ELSE Raised("TypeError")
    ELSE IF license_dicts.py = "dict"
    THEN IF license_dicts.v = <<>> THEN Returned(<<>>) ELSE Raised("TypeError")
    ELSE LET links == [i \in DOMAIN license_dicts.v |->
                            LicenseLinkFromDict(license_dicts.v[i])]
         IN IF \E i \in DOMAIN links : links[i].raised # "none"
            THEN Raised("TypeError")
            ELSE Returned([i \in DOMAIN links |-> links[i].value])

\* the body of the try in get and in get_batch
LoadLicenses(license_data_json) ==
    LET license_dicts == json_loads(license_data_json)
    IN IF license_dicts.raised # "none" THEN license_dicts
       ELSE LicenseLinks(license_dicts.value)

\* the exceptions the except clauses of get and get_batch catch
Caught == {"JSONDecodeError", "TypeError", "KeyError"}

\* datetime.isoformat and datetime.fromisoformat
isoformat(t) == [iso8601 |-> t]
fromisoformat(text) == text.iso8601

\* a list of LicenseLink as a call's argument or return value
ListOf(items) == [kind |-> "list", items |-> items]

Row(license_data, resolved_at, expires_at) ==
    [license_data |-> license_data, resolved_at |-> resolved_at,
     expires_at |-> expires_at]

SelectRow(table, key) == IF key \in DOMAIN table THEN table[key] ELSE None

\* "now >= expires_at", in get and in get_batch
ExpiredAfter(t, expires_at) == t > expires_at
Expired(t, expires_at) == t >= expires_at

\* the statements get runs against the table: one SELECT
TableAfterGetPurging(table, t, key) ==
    [k \in DOMAIN table |->
        IF k = key /\ table[k] # None /\ t >= fromisoformat(table[k].expires_at)
        THEN None ELSE table[k]]
TableAfterGet(table, t, key) == table

get(table, t, name, version) ==
    LET row == SelectRow(table, <<name, version>>)
    IN IF row = None THEN Returned(None)
       ELSE IF Expired(t, fromisoformat(row.expires_at)) THEN Returned(None)
       ELSE LET loaded == LoadLicenses(row.license_data)
            IN IF loaded.raised = "none" THEN Returned(ListOf(loaded.value))
               ELSE IF loaded.raised \in Caught THEN Returned(None)
               ELSE loaded

\* results = {pkg: None for pkg in packages}
ResultsOfHitsOnly(packages) == [pkg \in {} |-> None]
InitialResults(packages) == [pkg \in Range(packages) |-> None]

\* chunk_map[key]: the packages of the chunk with that (name, version)
ChunkMapFirstOnly(chunk, key) ==
    LET first == CHOOSE i \in DOMAIN chunk :
                    /\ <<chunk[i].name, chunk[i].version>> = key
                    /\ \A j \in 1..(i - 1) : <<chunk[j].name, chunk[j].version>> # key
    IN {chunk[first]}
ChunkMap(chunk, key) ==
    {chunk[i] : i \in {j \in DOMAIN chunk : <<chunk[j].name, chunk[j].version>> = key}}

\* one iteration of get_batch's loop over the chunks; json_cache only spares
\* a second json.loads of a text already parsed
GetBatchChunk(table, t, chunk, results) ==
    LET keys == {<<chunk[i].name, chunk[i].version>> : i \in DOMAIN chunk}
        rows == {key \in keys : SelectRow(table, key) # None}
        live == {key \in rows : ~Expired(t, fromisoformat(table[key].expires_at))}
        loaded(key) == LoadLicenses(table[key].license_data)
        parsed == {key \in live : loaded(key).raised = "none"}
        assigned == UNION {ChunkMap(chunk, key) : key \in parsed}
        keyOf(pkg) == <<pkg.name, pkg.version>>
    IN IF \E key \in live : loaded(key).raised \notin (Caught \cup {"none"})
       THEN Raised(loaded(CHOOSE key \in live :
                            loaded(key).raised \notin (Caught \cup {"none"})).raised)
       ELSE Returned([pkg \in DOMAIN results \cup assigned |->
                        IF pkg \in assigned THEN ListOf(loaded(keyOf(pkg)).value)
                        ELSE results[pkg]])

RECURSIVE GetBatchFrom(_, _, _, _, _, _)
GetBatchFrom(table, t, packages, size, i, results) ==
    IF i > Len(packages) THEN Returned(results)
    ELSE LET last == IF i + size - 1 < Len(packages) THEN i + size - 1 ELSE Len(packages)
             done == GetBatchChunk(table, t, SubSeq(packages, i, last), results)
         IN IF done.raised # "none" THEN done
            ELSE GetBatchFrom(table, t, packages, size, i + size, done.value)

\* get_batch with chunks of the given size
GetBatchChunked(table, t, packages, size) ==
    IF packages = <<>> THEN Returned(InitialResults(packages))
    ELSE GetBatchFrom(table, t, packages, size, 1, InitialResults(packages))

get_batch(table, t, packages) == GetBatchChunked(table, t, packages, chunk_size)

\* INSERT OR IGNORE, and what the code executes: REPLACE INTO
InsertOrIgnore(table, key, row) ==
    IF table[key] = None THEN [table EXCEPT ![key] = row] ELSE table
Replace(table, key, row) == [table EXCEPT ![key] = row]

\* a set that stamps the default TTL whatever the instance's ttl_days is
SetWithDefaultTtl(table, t, ttl, name, version, licenses) ==
    Replace(table, <<name, version>>,
            Row(json_dumps(Py("list", [i \in DOMAIN licenses |-> asdict(licenses[i])])),
                isoformat(t), isoformat(t + DEFAULT_TTL_DAYS)))
set(table, t, ttl, name, version, licenses) ==
    LET resolved_at == t
        expires_at == resolved_at + ttl
        license_data == json_dumps(Py("list", [i \in DOMAIN licenses |-> asdict(licenses[i])]))
    IN Replace(table, <<name, version>>,
               Row(license_data, isoformat(resolved_at), isoformat(expires_at)))

\* executemany of REPLACE INTO over the rows from the i-th on
RECURSIVE executemany(_, _, _)
executemany(table, rows, i) ==
    IF i > Len(rows) THEN table
    ELSE executemany(Replace(table, rows[i].key, rows[i].row), rows, i + 1)

\* items: the (PackageSpec, licenses) items of the dict, in its order
SetBatchFirstItemOnly(table, t, ttl, items) ==
    IF items = <<>> THEN table
    ELSE set(table, t, ttl, items[1][1].name, items[1][1].version, items[1][2])
set_batch(table, t, ttl, items) ==
    IF items = <<>> THEN table
    ELSE LET resolved_at == t
             expires_at == resolved_at + ttl
             rows == [i \in DOMAIN items |->
                        [key |-> <<items[i][1].name, items[i][1].version>>,
                         row |-> Row(json_dumps(Py("list", [j \in DOMAIN items[i][2] |->
                                                            asdict(items[i][2][j])])),
                                     isoformat(resolved_at), isoformat(expires_at))]]
         IN executemany(table, rows, 1)

ClearWholePackage(table, package, version) ==
    IF package = NoneStr THEN [k \in DOMAIN table |-> None]
    ELSE [k \in DOMAIN table |-> IF k[1] = package THEN None ELSE table[k]]
clear(table, package, version) ==
    IF package = NoneStr THEN [k \in DOMAIN table |-> None]
    ELSE IF version = NoneStr
    THEN [k \in DOMAIN table |-> IF k[1] = package THEN None ELSE table[k]]
    ELSE [k \in DOMAIN table |-> IF k = <<package, version>> THEN None ELSE table[k]]

\* SELECT COUNT(*)
info(table) == [count |-> Cardinality({k \in DOMAIN table : table[k] # None})]

\* CREATE TABLE IF NOT EXISTS, CREATE INDEX IF NOT EXISTS: an existing table
\* keeps its rows
_init_database(table) == table

(***************************************************************************)
(* The inputs of the cache.                                                *)
(***************************************************************************)
CacheSpecList ==
    <<PackageSpec("requests", "2.31.0", "poetry.lock"),
      PackageSpec("requests", "2.31.0", "requirements.txt"),
      PackageSpec("requests", "2.30.0", NoneStr),
      PackageSpec("aiohttp", "3.9.0", "poetry.lock")>>

CacheSpecs == {CacheSpecList[k] : k \in DOMAIN CacheSpecList}
CacheKeys == {<<spec.name, spec.version>> : spec \in CacheSpecs}

ApacheFile == LicenseLink("Apache-2.0", "Apache License 2.0", LicenseFileUrl, TRUE)

\* the license lists handed to set and set_batch
LicenseLists == {<<>>, <<SpdxMIT, ApacheFile>>}

\* the lists handed to get_batch: get_batch fills a dict from the list, so one
\* list stands for its reorderings
PackageLists ==
    UNION {{[i \in 1..n |-> CacheSpecList[ks[i]]] :
                ks \in {f \in [1..n -> DOMAIN CacheSpecList] :
                            \A i, j \in 1..n : i <= j => f[i] <= f[j]}} :
           n \in 0..MaxPackages}

\* the dicts handed to set_batch, as the lists of their items: the keys of a
\* dict are distinct, and they come in the order of CacheSpecList or in the
\* reverse order
ItemLists ==
    UNION {{[i \in 1..n |-> <<CacheSpecList[ks[i]], ls[i]>>] :
                ks \in {f \in [1..n -> DOMAIN CacheSpecList] :
                            \/ \A i, j \in 1..n : i < j => f[i] < f[j]
                            \/ \A i, j \in 1..n : i < j => f[i] > f[j]},
                ls \in [1..n -> LicenseLists]} :
           n \in 0..MaxItems}

\* license_data that no set wrote: text that is not JSON, an object without
\* members, and a list whose object lacks name and url
CorruptTexts ==
    {Json("invalid", ""), Json("object", <<>>),
     Json("array", <<Json("object", <<<<"spdx_id", Json("string", "MIT")>>>>)>>)}

\* the ttl_days handed to the constructor: entries expire at once, or after a day
TtlDays == {0, 1}

(***************************************************************************)
(* SpecCache: the calls of one LicenseCache, one at a time, while the      *)
(* clock advances and the file can be damaged from outside.                *)
(***************************************************************************)
NoCall == [op |-> "none"]
NoTxn == [op |-> "none"]

NotRun == [ran |-> FALSE]
Uncalled == [called |-> FALSE]

OtherIdle ==
    /\ txn = NoTxn
    /\ cli = NotRun
    /\ enrich_call = Uncalled
    /\ pypi = Uncalled
    /\ check_run = NotRun
    /\ spdx_call = Uncalled
    /\ waterfall = Uncalled

CacheIdle ==
    /\ db = [key \in CacheKeys |-> None]
    /\ now = 0
    /\ ttl_days = DEFAULT_TTL_DAYS
    /\ cache_op = NoCall

(***************************************************************************)
(* cli.py: _scan_and_resolve, the cache in front of the WaterfallResolver. *)
(* A dict is the list of its items, a (spec, metadata) pair each.          *)
(***************************************************************************)
\* cached = cache.get(spec.name, spec.version), with "if cache"
Lookup(table, t, use_cache, spec) ==
    IF use_cache THEN get(table, t, spec.name, spec.version).value ELSE None

\* "if cached" (a test for None instead of the truth value)
CachedIsNotNone(cached) == cached # None
\* "if cached": None and the empty list are false
IsCached(cached) == cached # None /\ cached.items # <<>>

to_resolve(table, t, use_cache, packages) ==
    SelectSeq(packages, LAMBDA spec : ~IsCached(Lookup(table, t, use_cache, spec)))

cached_metadata(table, t, use_cache, packages) ==
    [spec \in {p \in Range(packages) : IsCached(Lookup(table, t, use_cache, p))} |->
        PackageMetadata(spec.name, spec.version, None,
                        Lookup(table, t, use_cache, spec).items)]

\* "if cache and metadata" (the test of metadata.licenses left out)
ShouldCacheAnyMetadata(use_cache, metadata) == use_cache /\ metadata # None
\* "if cache and metadata and metadata.licenses"
ShouldCache(use_cache, metadata) ==
    use_cache /\ metadata # None /\ metadata.licenses # <<>>

\* the loop over results.items(), from the i-th item on
RECURSIVE WriteBack(_, _, _, _, _, _)
WriteBack(table, t, ttl, use_cache, results, i) ==
    IF i > Len(results) THEN table
    ELSE LET spec == results[i][1]
             metadata == results[i][2]
         IN WriteBack(IF ShouldCache(use_cache, metadata)
                      THEN set(table, t, ttl, spec.name, spec.version, metadata.licenses)
                      ELSE table,
                      t, ttl, use_cache, results, i + 1)

\* {**cached_metadata, **resolved_metadata}
all_metadata(cached, results) ==
    LET resolved == {results[i][1] : i \in DOMAIN results}
    IN [spec \in DOMAIN cached \cup resolved |->
            IF spec \in resolved
            THEN (CHOOSE item \in Range(results) : item[1] = spec)[2]
            ELSE cached[spec]]

(***************************************************************************)
(* cli.py: the check command.                                              *)
(***************************************************************************)
\* set(text.split(","))
split_set(text) ==
    CASE text = "MIT" -> {"MIT"}
      [] text = "Apache-2.0" -> {"Apache-2.0"}
      [] text = "MIT,GPL-3.0-only" -> {"MIT", "GPL-3.0-only"}
      [] text = "MIT, GPL-3.0-only" -> {"MIT", " GPL-3.0-only"}

\* the test of one license (a bug that turns the allow-list into a deny-list)
ViolatesListed(forbidden_set, allowed_set, spdx_id) ==
    IF forbidden_set # {} /\ spdx_id \in forbidden_set THEN TRUE
    ELSE IF allowed_set # {} /\ spdx_id \in allowed_set THEN TRUE
    ELSE FALSE

\* the if / elif of the loop over metadata.licenses
Violates(forbidden_set, allowed_set, spdx_id) ==
    IF forbidden_set # {} /\ spdx_id \in forbidden_set THEN TRUE
    ELSE IF allowed_set # {} /\ spdx_id \notin allowed_set THEN TRUE
    ELSE FALSE

\* the loop over metadata.licenses, from the j-th license on
RECURSIVE LicenseViolations(_, _, _, _, _)
LicenseViolations(spec, licenses, j, forbidden_set, allowed_set) ==
    IF j > Len(licenses) THEN <<>>
    ELSE (IF Violates(forbidden_set, allowed_set, licenses[j].spdx_id)
          THEN <<(<<spec.name, spec.version, licenses[j].spdx_id>>)>>
          ELSE <<>>)
         \o LicenseViolations(spec, licenses, j + 1, forbidden_set, allowed_set)

\* the loop over results.items(), from the i-th item on
RECURSIVE Compliance(_, _, _, _)
Compliance(results, i, forbidden_set, allowed_set) ==
    IF i > Len(results) THEN [violations |-> <<>>, unknown |-> <<>>]
    ELSE LET spec == results[i][1]
             metadata == results[i][2]
             rest == Compliance(results, i + 1, forbidden_set, allowed_set)
         IN IF metadata = None \/ metadata.licenses = <<>>
            THEN [rest EXCEPT !.unknown = <<spec.name>> \o @]
            ELSE [rest EXCEPT !.violations =
                    LicenseViolations(spec, metadata.licenses, 1,
                                      forbidden_set, allowed_set) \o @]

\* typer.Exit(code) and what the command had found when it raised it
Exit(code, stage, found) ==
    [exit_code |-> code, stage |-> stage,
     violations |-> found.violations, unknown |-> found.unknown]

\* check(scan, forbidden, allowed, ...); scanned is what run_check did: it
\* raised, or it returned packages and results (the items of the dict)
check(forbidden, allowed, scanned) ==
    LET nothing == [violations |-> <<>>, unknown |-> <<>>]
    IN IF ~Truthy(forbidden) /\ ~Truthy(allowed) THEN Exit(1, "usage", nothing)
       ELSE IF Truthy(forbidden) /\ Truthy(allowed) THEN Exit(1, "usage", nothing)
       ELSE LET forbidden_set == IF Truthy(forbidden) THEN split_set(forbidden) ELSE {}
                allowed_set == IF Truthy(allowed) THEN split_set(allowed) ELSE {}
            IN IF scanned.raised THEN Exit(1, "error", nothing)
               ELSE IF scanned.packages = <<>> THEN Exit(0, "empty", nothing)
               ELSE LET found == Compliance(scanned.results, 1, forbidden_set, allowed_set)
                    IN IF found.violations # <<>> THEN Exit(1, "checked", found)
                       ELSE Exit(0, "checked", found)

(***************************************************************************)
(* Spec: one resolve_batch call.                                           *)
(***************************************************************************)
NoResponse == [kind |-> "no response"]
NotCalled == [kind |-> "not called"]
Pending == [kind |-> "pending"]

NewTask(spec) ==
    [pc |-> "new", spec |-> spec, resp |-> NoResponse, metadata |-> None,
     enriched |-> NotCalled, result |-> Pending, enrich_calls |-> 0, spdx_calls |-> 0]

FetchIdle ==
    /\ fpc = "idle"
    /\ retry_count = 0
    /\ requests = 0
    /\ responses = <<>>
    /\ sleeps = <<>>
    /\ fetched = Pending

SemIdle ==
    /\ waiting = 0
    /\ running = 0
    /\ finished = 0
    /\ failed = 0

CloseIdle ==
    /\ cpc = [at |-> "run", inside |-> FALSE, via |-> "none"]
    /\ close_calls = 0

BatchIdle ==
    /\ github_resolver = "GitHubResolver"
    /\ specs = <<>>
    /\ unique_specs = <<>>
    /\ phase = "idle"
    /\ tasks = <<>>
    /\ resolve_calls = [spec \in Idents |-> 0]
    /\ result_dict = <<>>

Init ==
    /\ github_resolver \in {"GitHubResolver", "injected"}
    /\ specs \in SpecLists
    /\ unique_specs = <<>>
    /\ phase = "call"
    /\ tasks = <<>>
    /\ sem = SemaphoreValue
    /\ resolve_calls = [spec \in Idents |-> 0]
    /\ result_dict = <<>>
    /\ NoSessions
    /\ FetchIdle
    /\ SemIdle
    /\ CloseIdle
    /\ CacheIdle
    /\ OtherIdle

\* resolve_batch up to its await of gather: the tasks exist, none has run
ResolveBatch ==
    /\ phase = "call"
    /\ \E order \in UniqueSpecs(specs) :
        /\ unique_specs' = order
        /\ tasks' = [i \in DOMAIN order |-> NewTask(order[i])]
    /\ sem' = SemaphoreValue
    /\ phase' = "gather"
    /\ UNCHANGED <<github_resolver, specs, resolve_calls, result_dict>>
    /\ UNCHANGED <<sessionVars, fetchVars, semVars, closeVars, cacheVars, otherVars>>

\* a task leaves "async with sem" with its result (a return or an exception)
Finish(i, t, result) ==
    /\ tasks' = [tasks EXCEPT ![i] = [t EXCEPT !.pc = "done", !.result = result]]
    /\ sem' = sem + 1

\* the rest of resolve from step 3 on, and the task's end
Conclude(i, t, enriched_metadata) ==
    LET last == Step3(t.spec, enriched_metadata)
    IN Finish(i, [t EXCEPT !.spdx_calls = @ + last.spdx_calls], last.value)

\* bounded_resolve enters "async with sem", calls resolve, and the index
\* resolver sends its request
Acquire(i) ==
    /\ phase = "gather"
    /\ tasks[i].pc = "new"
    /\ CanAcquire(sem)
    /\ sem' = sem - 1
    /\ tasks' = [tasks EXCEPT ![i].pc = "pypi"]
    /\ resolve_calls' = [resolve_calls EXCEPT ![tasks[i].spec] = @ + 1]
    /\ SetSessions(_get_session(Sessions, "PyPI"))
    /\ UNCHANGED <<github_resolver, specs, unique_specs, phase, result_dict>>
    /\ UNCHANGED <<fetchVars, semVars, closeVars, cacheVars, otherVars>>

\* the index answers: resolve's step 1, and step 2 up to the enrichment's await
TaskPyPI(i) ==
    /\ phase = "gather"
    /\ tasks[i].pc = "pypi"
    /\ \E resp \in PyPIResponses :
        LET metadata == PyPIResolve(tasks[i].spec, resp)
            next == AfterIndex(tasks[i].spec, metadata)
            t == [tasks[i] EXCEPT !.resp = resp, !.metadata = metadata]
            called == [t EXCEPT !.enrich_calls = @ + 1]
        IN IF metadata = None THEN
                Finish(i, t, next.value) /\ UNCHANGED sessionVars
           ELSE IF next.op = "return" THEN
                Conclude(i, t, next.value) /\ UNCHANGED sessionVars
           ELSE IF github_resolver = "GitHubResolver" /\ ~EnrichFetches(metadata) THEN
                /\ Conclude(i, [called EXCEPT !.enriched = None], Step2(metadata, None))
                /\ UNCHANGED sessionVars
           ELSE
                /\ tasks' = [tasks EXCEPT ![i] = [called EXCEPT !.pc = "enrich"]]
                /\ sem' = sem
                /\ IF github_resolver = "GitHubResolver"
                   THEN SetSessions(_get_session(Sessions, "GitHub"))
                   ELSE UNCHANGED sessionVars
    /\ UNCHANGED <<github_resolver, specs, unique_specs, phase, resolve_calls, result_dict>>
    /\ UNCHANGED <<fetchVars, semVars, closeVars, cacheVars, otherVars>>

\* what enrich can return for metadata
EnrichResults(spec, metadata) ==
    IF github_resolver = "GitHubResolver"
    THEN {GitHubEnrich(spec, metadata, script) : script \in HostScripts}
    ELSE InjectedEnrichResults(metadata)

\* the enrichment returns or raises: the rest of resolve
TaskEnrich(i) ==
    /\ phase = "gather"
    /\ tasks[i].pc = "enrich"
    /\ \E enriched \in EnrichResults(tasks[i].spec, tasks[i].metadata) :
        LET t == [tasks[i] EXCEPT !.enriched = enriched]
        IN IF enriched = Fault
           THEN Finish(i, t, Fault)
           ELSE Conclude(i, t, Step2(t.metadata, enriched))
    /\ UNCHANGED <<github_resolver, specs, unique_specs, phase, resolve_calls, result_dict>>
    /\ UNCHANGED <<sessionVars, fetchVars, semVars, closeVars, cacheVars, otherVars>>

\* gather is over: the two loops that build the result
BatchReturn ==
    /\ phase = "gather"
    /\ \A i \in DOMAIN tasks : tasks[i].pc = "done"
    /\ LET g == Gather([i \in DOMAIN tasks |-> tasks[i].result])
       IN IF g.raised
          THEN phase' = "raised" /\ UNCHANGED result_dict
          ELSE /\ phase' = "returned"
               /\ result_dict' = ResultDict(specs, UniqueResultsMap(unique_specs, g.results))
    /\ UNCHANGED <<github_resolver, specs, unique_specs, tasks, sem, resolve_calls>>
    /\ UNCHANGED <<sessionVars, fetchVars, semVars, closeVars, cacheVars, otherVars>>

Next ==
    \/ ResolveBatch
    \/ \E i \in DOMAIN tasks : Acquire(i)
    \/ \E i \in DOMAIN tasks : TaskPyPI(i)
    \/ \E i \in DOMAIN tasks : TaskEnrich(i)
    \/ BatchReturn

Spec == Init /\ [][Next]_vars

(***************************************************************************)
(* SpecGitHub: one enrich call, its _fetch_license request by request.      *)
(***************************************************************************)
HttpDate == "Wed, 21 Oct 2015 07:28:00 GMT"
NoJson == [kind |-> "invalid"]

\* 200 payloads that lack a part: a JSON list, no "license" member, and
\* spdx_id, name or html_url missing (or null) or empty
OddJson ==
    {[kind |-> "list"], JsonBody([kind |-> "missing"], LicenseFileUrl)}
    \cup {JsonBody(JsonLicense(spdx_id, "Apache License 2.0"), LicenseFileUrl) :
                spdx_id \in {NoneStr, ""}}
    \cup {JsonBody(JsonLicense("Apache-2.0", name), LicenseFileUrl) :
                name \in {NoneStr, ""}}
    \cup {JsonBody(JsonLicense("Apache-2.0", "Apache License 2.0"), html_url) :
                html_url \in {NoneStr, ""}}

\* the metadata handed to enrich
EnrichInputs ==
    {PackageMetadata("requests", "2.31.0", url, <<>>) : url \in {None, GitLabUrl, GitHubUrl}}
    \cup {PackageMetadataOf("requests", "2.31.0", "Python HTTP for Humans.",
                            "https://requests.readthedocs.io", GitHubUrl,
                            "Kenneth Reitz", <<SpdxMIT>>, TRUE)}

\* what the source host can answer to one request
HostResponses ==
    {HostResponse(TRUE, 0, NoneStr, NoJson)}
    \cup {HostResponse(FALSE, 403, ra, NoJson) : ra \in {NoneStr, "", "5", "1.5", HttpDate}}
    \cup {HostResponse(FALSE, st, NoneStr, NoJson) : st \in {404, 500}}
    \cup {Ok200, NullLicense200, HostResponse(FALSE, 200, NoneStr, NoJson)}
    \cup {HostResponse(FALSE, 200, NoneStr, json) : json \in OddJson}

InitGitHub ==
    /\ BatchIdle
    /\ sem = SemaphoreValue
    /\ NoSessions
    /\ SemIdle
    /\ CloseIdle
    /\ CacheIdle
    /\ OtherIdle
    /\ fpc = "request"
    /\ retry_count = 0
    /\ requests = 0
    /\ responses = <<>>
    /\ sleeps = <<>>
    /\ fetched = Pending

\* session.get and the handling of its response, up to the return or the sleep
FetchRequest ==
    /\ fpc = "request"
    /\ SetSessions(_get_session(Sessions, "GitHub"))
    /\ requests' = requests + 1
    /\ \E resp \in HostResponses :
        LET step == FetchStep(resp, retry_count, max_retries)
        IN /\ responses' = Append(responses, resp)
           /\ IF step.op = "retry"
              THEN /\ sleeps' = Append(sleeps, step.wait)
                   /\ fpc' = "sleep"
                   /\ fetched' = fetched
              ELSE /\ sleeps' = sleeps
                   /\ fpc' = "returned"
                   /\ fetched' = step.value
    /\ UNCHANGED <<retry_count, sem>>
    /\ UNCHANGED <<batchVars, semVars, closeVars, cacheVars, otherVars>>

\* asyncio.sleep is over: the recursive call with retry_count + 1
FetchWake ==
    /\ fpc = "sleep"
    /\ retry_count' = retry_count + 1
    /\ fpc' = "request"
    /\ UNCHANGED <<requests, responses, sleeps, fetched, sem>>
    /\ UNCHANGED <<batchVars, sessionVars, semVars, closeVars, cacheVars, otherVars>>

\* enrich returns before _fetch_license: no repository_url, or not one of GitHub
EnrichSkip(metadata) ==
    /\ fpc = "request"
    /\ requests = 0
    /\ ~EnrichFetches(metadata)
    /\ fpc' = "enriched"
    /\ enrich_call' = [called |-> TRUE, metadata |-> metadata,
                       returned |-> GitHubEnrich(PackageSpec(metadata.name, metadata.version, NoneStr),
                                                 metadata, <<>>)]
    /\ UNCHANGED <<retry_count, requests, responses, sleeps, fetched, sem>>
    /\ UNCHANGED <<batchVars, sessionVars, semVars, closeVars, cacheVars, txn, cli, pypi, lateVars>>

\* enrich from the return of _fetch_license to its own return (or raise)
EnrichReturn(metadata) ==
    /\ fpc = "returned"
    /\ EnrichFetches(metadata)
    /\ fpc' = "enriched"
    /\ enrich_call' = [called |-> TRUE, metadata |-> metadata,
                       returned |-> EnrichFrom(metadata, fetched)]
    /\ UNCHANGED <<retry_count, requests, responses, sleeps, fetched, sem>>
    /\ UNCHANGED <<batchVars, sessionVars, semVars, closeVars, cacheVars, txn, cli, pypi, lateVars>>

NextGitHub ==
    \/ FetchRequest
    \/ FetchWake
    \/ \E metadata \in EnrichInputs : EnrichSkip(metadata)
    \/ \E metadata \in EnrichInputs : EnrichReturn(metadata)

SpecGitHub == InitGitHub /\ [][NextGitHub]_vars

\* every request is answered (or fails) and every asyncio.sleep ends
SpecGitHubLive == SpecGitHub /\ WF_vars(FetchRequest) /\ WF_vars(FetchWake)

(***************************************************************************)
(* SpecSem: the semaphore of resolve_batch with more tasks than slots.     *)
(* The tasks are counted by where they are.                                *)
(***************************************************************************)
InitSem ==
    /\ BatchIdle
    /\ NoSessions
    /\ FetchIdle
    /\ CloseIdle
    /\ CacheIdle
    /\ OtherIdle
    /\ sem = SemaphoreValue
    /\ waiting \in 0..MaxTasks
    /\ running = 0
    /\ finished = 0
    /\ failed = 0

\* a task enters "async with sem" and starts its resolve
SemAcquire ==
    /\ waiting > 0
    /\ CanAcquire(sem)
    /\ sem' = sem - 1
    /\ waiting' = waiting - 1
    /\ running' = running + 1
    /\ UNCHANGED <<finished, failed>>
    /\ UNCHANGED <<batchVars, sessionVars, fetchVars, closeVars, cacheVars, otherVars>>

\* a resolve returns or raises: its task leaves "async with sem"
SemRelease ==
    /\ running > 0
    /\ sem' = sem + 1
    /\ running' = running - 1
    /\ finished' = finished + 1
    /\ UNCHANGED <<waiting, failed>>
    /\ UNCHANGED <<batchVars, sessionVars, fetchVars, closeVars, cacheVars, otherVars>>

NextSem == SemAcquire \/ SemRelease

SpecSem == InitSem /\ [][NextSem]_vars

(***************************************************************************)
(* SpecSemLive: a resolve_batch call with more tasks than slots, from the  *)
(* start of gather to the return, with the way each resolve ends.          *)
(***************************************************************************)
\* how a resolve ends: it returns metadata, it returns None, or it raises
Outcomes == {"metadata", "None", "Exception"}

\* "async with sem" (a bug that releases the slot only when resolve returns)
ReleasedOnReturn(outcome) == IF outcome = "Exception" THEN 0 ELSE 1

\* "async with sem": the slots __aexit__ gives back when resolve ended
Released(outcome) == 1

InitSemLive ==
    /\ github_resolver = "GitHubResolver"
    /\ specs = <<>>
    /\ unique_specs = <<>>
    /\ phase = "gather"
    /\ tasks = <<>>
    /\ resolve_calls = [spec \in Idents |-> 0]
    /\ result_dict = <<>>
    /\ NoSessions
    /\ FetchIdle
    /\ CloseIdle
    /\ CacheIdle
    /\ OtherIdle
    /\ sem = SemaphoreValue
    /\ waiting \in (SemaphoreValue + 1)..MaxTasks
    /\ running = 0
    /\ finished = 0
    /\ failed = 0

\* a resolve ends and its task leaves "async with sem"
SemLeave(outcome) ==
    /\ running > 0
    /\ sem' = sem + Released(outcome)
    /\ running' = running - 1
    /\ finished' = finished + 1
    /\ failed' = IF outcome = "metadata" THEN failed ELSE failed + 1
    /\ UNCHANGED waiting
    /\ UNCHANGED <<batchVars, sessionVars, fetchVars, closeVars, cacheVars, otherVars>>

\* every task is done: gather returns, and resolve_batch after it
GatherReturn ==
    /\ phase = "gather"
    /\ waiting = 0
    /\ running = 0
    /\ phase' = "returned"
    /\ UNCHANGED <<github_resolver, specs, unique_specs, tasks, sem, resolve_calls,
                   result_dict>>
    /\ UNCHANGED <<sessionVars, fetchVars, semVars, closeVars, cacheVars, otherVars>>

NextSemLive ==
    \/ SemAcquire
    \/ \E outcome \in Outcomes : SemLeave(outcome)
    \/ GatherReturn

\* a task that waits for a free slot gets it, every resolve ends (its network
\* calls and its backoff waits complete), and gather returns
SpecSemLive ==
    /\ InitSemLive
    /\ [][NextSemLive]_vars
    /\ WF_vars(SemAcquire)
    /\ WF_vars(\E outcome \in Outcomes : SemLeave(outcome))
    /\ WF_vars(GatherReturn)

(***************************************************************************)
(* SpecClose: the owner of a WaterfallResolver uses it and closes it.      *)
(***************************************************************************)
InitClose ==
    /\ BatchIdle
    /\ NoSessions
    /\ FetchIdle
    /\ SemIdle
    /\ CloseIdle
    /\ CacheIdle
    /\ OtherIdle
    /\ sem = SemaphoreValue

\* __aenter__
AEnter ==
    /\ cpc.at # "closing"
    /\ ~cpc.inside
    /\ cpc' = [cpc EXCEPT !.inside = TRUE]
    /\ UNCHANGED <<close_calls, sem>>
    /\ UNCHANGED <<batchVars, sessionVars, fetchVars, semVars, cacheVars, otherVars>>

\* a resolve of the orchestrator has resolver r send a request
Use(r) ==
    /\ cpc.at # "closing"
    /\ _get_session(Sessions, r).created[r] <= MaxSessions
    /\ SetSessions(_get_session(Sessions, r))
    /\ cpc' = [cpc EXCEPT !.at = "run"]
    /\ UNCHANGED <<close_calls, sem>>
    /\ UNCHANGED <<batchVars, fetchVars, semVars, cacheVars, otherVars>>

\* WaterfallResolver.close up to its second await: the index resolver's close
CloseBegin(via) ==
    /\ cpc.at # "closing"
    /\ close_calls < MaxCloses
    /\ close_calls' = close_calls + 1
    /\ SetSessions(PyPIClose(Sessions))
    /\ cpc' = [at |-> "closing", via |-> via,
               inside |-> IF via = "close" THEN cpc.inside ELSE FALSE]
    /\ UNCHANGED sem
    /\ UNCHANGED <<batchVars, fetchVars, semVars, cacheVars, otherVars>>

\* an explicit close()
Close == CloseBegin("close")

\* __aexit__: the body of "async with" ended, normally or with an exception
AExit ==
    /\ cpc.inside
    /\ \E via \in {"aexit", "aexit after exception"} : CloseBegin(via)

\* the rest of WaterfallResolver.close: the source-host resolver's close
CloseEnd ==
    /\ cpc.at = "closing"
    /\ SetSessions(GitHubClose(Sessions))
    /\ cpc' = [cpc EXCEPT !.at = "closed"]
    /\ UNCHANGED <<close_calls, sem>>
    /\ UNCHANGED <<batchVars, fetchVars, semVars, cacheVars, otherVars>>

NextClose ==
    \/ AEnter
    \/ \E r \in Resolvers : Use(r)
    \/ Close
    \/ AExit
    \/ CloseEnd

SpecClose == InitClose /\ [][NextClose]_vars

(***************************************************************************)
(* SpecCache, continued.                                                   *)
(***************************************************************************)
\* LicenseCache(db_path, ttl_days) on a path that has no file yet
CacheNew(ttls) ==
    /\ BatchIdle
    /\ NoSessions
    /\ FetchIdle
    /\ SemIdle
    /\ CloseIdle
    /\ sem = SemaphoreValue
    /\ db = _init_database([key \in CacheKeys |-> None])
    /\ now = 0
    /\ ttl_days \in ttls
    /\ cache_op = NoCall
    /\ OtherIdle

InitCache == CacheNew(TtlDays)

\* the same, or LicenseCache(db_path) with the default ttl_days
InitCacheBatch == CacheNew(TtlDays \cup {DEFAULT_TTL_DAYS})

CacheFrame ==
    /\ UNCHANGED <<sem, txn, cli, enrich_call, pypi, lateVars>>
    /\ UNCHANGED <<batchVars, sessionVars, fetchVars, semVars, closeVars>>

\* LicenseCache(db_path, ttl_days) again, on the file as it is
Reopen ==
    /\ cache_op = NoCall
    /\ db' = _init_database(db)
    /\ cache_op' = [op |-> "init"]
    /\ UNCHANGED <<now, ttl_days>>
    /\ CacheFrame

CacheSet(name, version, licenses) ==
    /\ cache_op = NoCall
    /\ db' = set(db, now, ttl_days, name, version, licenses)
    /\ cache_op' = [op |-> "set", name |-> name, version |-> version,
                    licenses |-> licenses, before |-> db[<<name, version>>]]
    /\ UNCHANGED <<now, ttl_days>>
    /\ CacheFrame

CacheSetBatch(items) ==
    /\ cache_op = NoCall
    /\ db' = set_batch(db, now, ttl_days, items)
    /\ cache_op' = [op |-> "set_batch", items |-> items]
    /\ UNCHANGED <<now, ttl_days>>
    /\ CacheFrame

CacheGet(name, version) ==
    /\ cache_op = NoCall
    /\ db' = TableAfterGet(db, now, <<name, version>>)
    /\ cache_op' = [op |-> "get", name |-> name, version |-> version,
                    returned |-> get(db, now, name, version)]
    /\ UNCHANGED <<now, ttl_days>>
    /\ CacheFrame

CacheGetBatch(packages) ==
    /\ cache_op = NoCall
    /\ db' = db
    /\ cache_op' = [op |-> "get_batch", packages |-> packages,
                    returned |-> get_batch(db, now, packages)]
    /\ UNCHANGED <<now, ttl_days>>
    /\ CacheFrame

CacheClear(package, version) ==
    /\ cache_op = NoCall
    /\ db' = clear(db, package, version)
    /\ cache_op' = [op |-> "clear", package |-> package, version |-> version]
    /\ UNCHANGED <<now, ttl_days>>
    /\ CacheFrame

CacheInfo ==
    /\ cache_op = NoCall
    /\ db' = db
    /\ cache_op' = [op |-> "info", returned |-> info(db)]
    /\ UNCHANGED <<now, ttl_days>>
    /\ CacheFrame

\* the call returns to its caller
CacheReturn ==
    /\ cache_op # NoCall
    /\ cache_op' = NoCall
    /\ UNCHANGED <<db, now, ttl_days>>
    /\ CacheFrame

\* a day passes
Tick ==
    /\ cache_op = NoCall
    /\ now < MaxTime
    /\ now' = now + 1
    /\ UNCHANGED <<db, ttl_days, cache_op>>
    /\ CacheFrame

IsCorrupt(row) == row # None /\ row.license_data \in CorruptTexts

\* the license_data of a row is damaged outside the program
Corrupt(key, text) ==
    /\ cache_op = NoCall
    /\ db[key] # None
    /\ Cardinality({k \in CacheKeys : IsCorrupt(db[k])}) < MaxCorrupt
    /\ db' = [db EXCEPT ![key].license_data = text]
    /\ UNCHANGED <<now, ttl_days, cache_op>>
    /\ CacheFrame

NextCache ==
    \/ Reopen
    \/ \E key \in CacheKeys, licenses \in LicenseLists :
            CacheSet(key[1], key[2], licenses)
    \/ \E key \in CacheKeys : CacheGet(key[1], key[2])
    \/ \E packages \in PackageLists : CacheGetBatch(packages)
    \/ \E package \in {key[1] : key \in CacheKeys} \cup {NoneStr},
          version \in {key[2] : key \in CacheKeys} \cup {NoneStr} :
            CacheClear(package, version)
    \/ CacheInfo
    \/ CacheReturn
    \/ Tick
    \/ \E key \in CacheKeys, text \in CorruptTexts : Corrupt(key, text)

SpecCache == InitCache /\ [][NextCache]_vars

\* SpecCacheBatch: the writes of set and set_batch on an intact table
NextCacheBatch ==
    \/ \E key \in CacheKeys, licenses \in LicenseLists :
            CacheSet(key[1], key[2], licenses)
    \/ \E items \in ItemLists : CacheSetBatch(items)
    \/ \E key \in CacheKeys : CacheGet(key[1], key[2])
    \/ \E packages \in PackageLists : CacheGetBatch(packages)
    \/ CacheReturn
    \/ Tick

SpecCacheBatch == InitCacheBatch /\ [][NextCacheBatch]_vars

(***************************************************************************)
(* SpecCacheTxn: a process writes through its own sqlite3 connection while *)
(* another process reads the file.  cursor.execute and executemany open    *)
(* a transaction implicitly and conn.commit() ends it; a connection closed *)
(* before its commit rolls back.                                           *)
(***************************************************************************)
\* every statement is on the file as soon as it has run (autocommit)
VisibleAtOnce(table, view, committed) == view
\* the table the other connections read: the writer's statements stay in its
\* transaction until conn.commit()
Visible(table, view, committed) == IF committed THEN view ELSE table

TxnFrame ==
    /\ UNCHANGED <<now, ttl_days, cache_op, sem, cli, enrich_call, pypi, lateVars>>
    /\ UNCHANGED <<batchVars, sessionVars, fetchVars, semVars, closeVars>>

\* set up to cursor.execute
TxnSet(name, version, licenses) ==
    /\ txn = NoTxn
    /\ txn' = [op |-> "set", name |-> name, version |-> version,
               licenses |-> licenses, at |-> now,
               view |-> set(db, now, ttl_days, name, version, licenses)]
    /\ db' = Visible(db, txn'.view, FALSE)
    /\ TxnFrame

\* set_batch up to cursor.executemany
TxnSetBatch(items) ==
    /\ txn = NoTxn
    /\ items # <<>>
    /\ txn' = [op |-> "set_batch", items |-> items, at |-> now, done |-> 0,
               view |-> db]
    /\ UNCHANGED db
    /\ TxnFrame

\* executemany runs the statement for the next row
TxnRow ==
    /\ txn.op = "set_batch"
    /\ txn.done < Len(txn.items)
    /\ txn' = [txn EXCEPT !.done = @ + 1,
                          !.view = set_batch(@, txn.at, ttl_days,
                                             <<txn.items[txn.done + 1]>>)]
    /\ db' = Visible(db, txn'.view, FALSE)
    /\ TxnFrame

\* clear up to cursor.execute
TxnClear(package, version) ==
    /\ txn = NoTxn
    /\ txn' = [op |-> "clear", package |-> package, version |-> version,
               view |-> clear(db, package, version)]
    /\ db' = Visible(db, txn'.view, FALSE)
    /\ TxnFrame

TxnExecuted ==
    /\ txn.op # "none"
    /\ txn.op = "set_batch" => txn.done = Len(txn.items)

\* conn.commit()
TxnCommit ==
    /\ TxnExecuted
    /\ db' = Visible(db, txn.view, TRUE)
    /\ txn' = NoTxn
    /\ TxnFrame

\* the statement raises or the process ends: the connection closes uncommitted
TxnRollback ==
    /\ txn.op # "none"
    /\ txn' = NoTxn
    /\ UNCHANGED db
    /\ TxnFrame

\* the dicts the writer hands to set_batch: every package with two licenses
TxnItemLists ==
    {items \in ItemLists :
        \A i \in DOMAIN items : items[i][2] = <<SpdxMIT, ApacheFile>>}

NextCacheTxn ==
    \/ \E key \in CacheKeys, licenses \in LicenseLists :
            TxnSet(key[1], key[2], licenses)
    \/ \E items \in TxnItemLists : TxnSetBatch(items)
    \/ TxnRow
    \/ \E package \in {key[1] : key \in CacheKeys} \cup {NoneStr},
          version \in {key[2] : key \in CacheKeys} \cup {NoneStr} :
            TxnClear(package, version)
    \/ TxnCommit
    \/ TxnRollback
    \/ \E key \in CacheKeys : CacheGet(key[1], key[2])
    \/ CacheReturn
    \/ Tick

\* LicenseCache(db_path) in the writing and in the reading process
SpecCacheTxn == CacheNew({DEFAULT_TTL_DAYS}) /\ [][NextCacheTxn]_vars

(***************************************************************************)
(* SpecCli: runs of _scan_and_resolve over one cache file.  What the       *)
(* WaterfallResolver answers is free; the file is also written through     *)
(* LicenseCache.set by its other callers, and time passes between runs.     *)
(***************************************************************************)
\* the order of CacheSpecList
Before(a, b) ==
    \E i, j \in DOMAIN CacheSpecList :
        i < j /\ CacheSpecList[i] = a /\ CacheSpecList[j] = b

\* what scanner.scan() returns: distinct identifiers
ScanLists == {packages \in PackageLists :
                \A i, j \in DOMAIN packages : i < j => packages[i] # packages[j]}

\* what resolver.resolve_batch(to_resolve) returns: the unique identifiers in
\* one order or the reverse, each with None, with metadata without a license
\* or with metadata with one
ResolveBatchResults(list) ==
    {[i \in DOMAIN order |->
        <<order[i],
          CASE found[i] = "None" -> None
            [] found[i] = "unlicensed" ->
                 PackageMetadata(order[i].name, order[i].version, None, <<>>)
            [] found[i] = "licensed" ->
                 PackageMetadata(order[i].name, order[i].version, GitHubUrl, <<SpdxMIT>>)>>] :
        order \in {o \in UniqueSpecs(list) :
                        \/ \A i, j \in DOMAIN o : i < j => Before(o[i], o[j])
                        \/ \A i, j \in DOMAIN o : i < j => Before(o[j], o[i])},
        found \in [1..Cardinality(Range(list)) -> {"None", "unlicensed", "licensed"}]}

ScanAndResolve(packages, use_cache) ==
    /\ cache_op = NoCall
    /\ cli = NotRun
    /\ LET cache == packages # <<>> /\ use_cache
           todo == to_resolve(db, now, cache, packages)
           cached == cached_metadata(db, now, cache, packages)
       IN \E results \in IF packages = <<>> \/ todo = <<>> THEN {<<>>}
                         ELSE ResolveBatchResults(todo) :
            /\ db' = WriteBack(db, now, ttl_days, cache, results, 1)
            /\ cli' = [ran |-> TRUE, packages |-> packages, use_cache |-> use_cache,
                       lookup |-> [spec \in Range(packages) |->
                                        Lookup(db, now, cache, spec)],
                       to_resolve |-> todo,
                       results |-> results,
                       returned |-> all_metadata(cached, results)]
    /\ UNCHANGED <<now, ttl_days, cache_op, txn, sem, enrich_call, pypi, lateVars>>
    /\ UNCHANGED <<batchVars, sessionVars, fetchVars, semVars, closeVars>>

\* the TTL of LicenseCache() passes
Expire ==
    /\ cache_op = NoCall
    /\ now < DEFAULT_TTL_DAYS
    /\ now' = now + DEFAULT_TTL_DAYS
    /\ UNCHANGED <<db, ttl_days, cache_op>>
    /\ CacheFrame

\* _scan_and_resolve returns (packages, all_metadata)
CliReturn ==
    /\ cli # NotRun
    /\ cli' = NotRun
    /\ UNCHANGED <<cacheVars, txn, sem, enrich_call, pypi, lateVars>>
    /\ UNCHANGED <<batchVars, sessionVars, fetchVars, semVars, closeVars>>

\* between the runs another caller stores an empty list for a package, and
\* time passes
NextCli ==
    \/ \E packages \in ScanLists, use_cache \in BOOLEAN :
            ScanAndResolve(packages, use_cache)
    \/ CliReturn
    \/ cli = NotRun /\ CacheSet(CacheSpecList[1].name, CacheSpecList[1].version, <<>>)
    \/ cli = NotRun /\ CacheReturn
    \/ cli = NotRun /\ Tick
    \/ cli = NotRun /\ Expire

\* cache = LicenseCache(): the default file and the default ttl_days
SpecCli == CacheNew({DEFAULT_TTL_DAYS}) /\ [][NextCli]_vars

(***************************************************************************)
(* SpecCheck: runs of the check command.  What _scan_and_resolve returns   *)
(* is free: every scanned package has an entry, absent, without a license, *)
(* or with one or two licenses.                                            *)
(***************************************************************************)
SpdxGPL == LicenseLink("GPL-3.0-only", "GNU General Public License v3.0 only",
                       "https://spdx.org/licenses/GPL-3.0-only.html", FALSE)

\* the values of --forbidden and of --allowed
OptionTexts == {NoneStr, "", "MIT", "Apache-2.0", "MIT,GPL-3.0-only", "MIT, GPL-3.0-only"}

FoundLicenses ==
    [found \in {"none", "MIT", "GPL", "two"} |->
        CASE found = "none" -> <<>>
          [] found = "MIT" -> <<SpdxMIT>>
          [] found = "GPL" -> <<SpdxGPL>>
          [] found = "two" -> <<SpdxMIT, ApacheFile>>]

\* what run_check does
Scans ==
    {[raised |-> TRUE]}
    \cup UNION {{[raised |-> FALSE, packages |-> packages,
                  results |-> [i \in DOMAIN packages |->
                        <<packages[i],
                          IF found[i] = "None" THEN None
                          ELSE PackageMetadata(packages[i].name, packages[i].version,
                                               None, FoundLicenses[found[i]])>>]] :
                    found \in [DOMAIN packages -> {"None"} \cup DOMAIN FoundLicenses]} :
                 packages \in ScanLists}

InitCheck ==
    /\ BatchIdle
    /\ NoSessions
    /\ FetchIdle
    /\ SemIdle
    /\ CloseIdle
    /\ CacheIdle
    /\ OtherIdle
    /\ sem = SemaphoreValue

LateFrame ==
    /\ UNCHANGED <<sem, txn, cli, enrich_call, pypi>>
    /\ UNCHANGED <<batchVars, sessionVars, fetchVars, semVars, closeVars, cacheVars>>

CheckCommand(forbidden, allowed, scanned) ==
    /\ check_run = NotRun
    /\ check_run' = [ran |-> TRUE, forbidden |-> forbidden, allowed |-> allowed,
                     scanned |-> scanned, exit |-> check(forbidden, allowed, scanned)]
    /\ UNCHANGED <<spdx_call, waterfall>>
    /\ LateFrame

\* the process ends
CheckExit ==
    /\ check_run # NotRun
    /\ check_run' = NotRun
    /\ UNCHANGED <<spdx_call, waterfall>>
    /\ LateFrame

NextCheck ==
    \/ \E forbidden, allowed \in OptionTexts, scanned \in Scans :
            CheckCommand(forbidden, allowed, scanned)
    \/ CheckExit

SpecCheck == InitCheck /\ [][NextCheck]_vars

(***************************************************************************)
(* SpecSPDX: SPDXResolver.resolve calls.                                   *)
(***************************************************************************)
\* the texts without a character other than whitespace
BlankIds == {"", "   "}

\* the spdx_id arguments: left out, blank, identifiers of SPDX_NAMES, an
\* identifier it does not hold, and identifiers with whitespace around them
SpdxIds ==
    {NoneStr} \cup BlankIds \cup DOMAIN SPDX_NAMES
    \cup {"LicenseRef-Custom", " MIT ", "  Apache-2.0", "LicenseRef-Custom "}

SPDXCall(spec, spdx_id) ==
    /\ spdx_call = Uncalled
    /\ spdx_call' = [called |-> TRUE, spec |-> spec, spdx_id |-> spdx_id,
                     returned |-> SPDXResolve(spec, spdx_id)]
    /\ UNCHANGED <<check_run, waterfall>>
    /\ LateFrame

SPDXReturn ==
    /\ spdx_call # Uncalled
    /\ spdx_call' = Uncalled
    /\ UNCHANGED <<check_run, waterfall>>
    /\ LateFrame

NextSPDX ==
    \/ \E spec \in CacheSpecs, spdx_id \in SpdxIds : SPDXCall(spec, spdx_id)
    \/ SPDXReturn

SpecSPDX == InitCheck /\ [][NextSPDX]_vars

(***************************************************************************)
(* SpecInit: WaterfallResolver(pypi_resolver, github_resolver,              *)
(* spdx_resolver) with injected resolvers, then one resolve call.  A       *)
(* resolver stands under the name of the attribute that holds it.          *)
(***************************************************************************)
\* the priorities an injected resolver can report: those of the three classes
\* and the default of BaseResolver
Priorities == {10, 80, 100, 1000}

Injected == <<"pypi_resolver", "github_resolver", "spdx_resolver">>

\* sorted(resolvers, key=lambda r: r.priority): ascending, and stable
sorted(list, priority) ==
    CHOOSE order \in [DOMAIN list -> Range(list)] :
        /\ Range(order) = Range(list)
        /\ \A i, j \in DOMAIN order : i < j =>
                \/ priority[order[i]] < priority[order[j]]
                \/ /\ priority[order[i]] = priority[order[j]]
                   /\ \E k, l \in DOMAIN list :
                        k < l /\ list[k] = order[i] /\ list[l] = order[j]

\* WaterfallResolver.__init__ and WaterfallResolverBase.__init__
WaterfallInit(priority) ==
    /\ waterfall = Uncalled
    /\ waterfall' = [called |-> TRUE, priority |-> priority,
                     resolvers |-> sorted(Injected, priority),
                     pc |-> "idle", invoked |-> <<>>]
    /\ UNCHANGED <<check_run, spdx_call>>
    /\ LateFrame

\* resolve up to the return of pypi_resolver.resolve: step 1 aborts, or the
\* metadata has no repository_url and resolve returns it, or step 2 goes on
ResolveIndex ==
    /\ waterfall # Uncalled
    /\ waterfall.pc = "idle"
    /\ \E metadata \in {None} \cup {PackageMetadata("requests", "2.31.0", url, <<>>) :
                                        url \in {None, GitHubUrl}} :
        waterfall' = [waterfall EXCEPT
                        !.invoked = Append(@, "pypi_resolver"),
                        !.pc = IF AfterIndex(IdentList[1], metadata).op = "enrich"
                               THEN "enrich" ELSE "returned"]
    /\ UNCHANGED <<check_run, spdx_call>>
    /\ LateFrame

\* github_resolver.enrich is called and returns: steps 3 and 4, and the return
ResolveEnrich ==
    /\ waterfall # Uncalled
    /\ waterfall.pc = "enrich"
    /\ waterfall' = [waterfall EXCEPT !.invoked = Append(@, "github_resolver"),
                                      !.pc = "returned"]
    /\ UNCHANGED <<check_run, spdx_call>>
    /\ LateFrame

NextInit ==
    \/ \E priority \in [Range(Injected) -> Priorities] : WaterfallInit(priority)
    \/ ResolveIndex
    \/ ResolveEnrich

SpecInit == InitCheck /\ [][NextInit]_vars

(***************************************************************************)
(* SpecPyPI: PyPIResolver.resolve calls, each answered by a script of two  *)
(* responses of which the body reads the first.                            *)
(***************************************************************************)
LicenseFields ==
    {Missing, NoneStr, "", "UNKNOWN", "unknown", "MIT License", " MIT License ",
     "MIT", "Apache 2.0 licensed", "Proprietary", "MIT OR Apache-2.0"}

ClassifierFields ==
    {[kind |-> "missing"], [kind |-> "null"], JsonList(<<>>),
     JsonList(<<<<"Programming Language", "Python", "3">>>>),
     JsonList(<<<<"License">>, <<"License", "OSI Approved", "MIT License">>>>),
     JsonList(<<<<"License", "Other/Proprietary License">>,
                <<"License", "OSI Approved", "Apache Software License">>,
                <<"License", "OSI Approved", "MIT License">>>>)}

\* the payloads of a 200 response
PyPIPayloads ==
    {[kind |-> "list"], [kind |-> "dict", info |-> [kind |-> "null"]],
     [kind |-> "dict", info |-> [kind |-> "missing"]]}
    \cup {[kind |-> "dict",
           info |-> Info("requests", "2.31.0", "Python HTTP for Humans.",
                         "Kenneth Reitz", "https://requests.readthedocs.io",
                         GitHubUrl, license, classifiers)] :
            license \in LicenseFields, classifiers \in ClassifierFields}
    \cup {[kind |-> "dict",
           info |-> Info(Missing, Missing, NoneStr, NoneStr, Missing, None,
                         license, [kind |-> "missing"])] :
            license \in LicenseFields}

\* what the index can answer to one request
IndexResponses ==
    {[fault |-> fault, status |-> 0, json_ok |-> FALSE, data |-> [kind |-> "list"]] :
        fault \in {"ClientError", "TimeoutError"}}
    \cup {[fault |-> "none", status |-> status, json_ok |-> json_ok,
           data |-> [kind |-> "list"]] :
            status \in {404, 500, 301}, json_ok \in BOOLEAN}
    \cup {[fault |-> "none", status |-> 200, json_ok |-> FALSE, data |-> [kind |-> "list"]]}
    \cup {[fault |-> "none", status |-> 200, json_ok |-> TRUE, data |-> data] :
            data \in PyPIPayloads}

InitPyPI ==
    /\ BatchIdle
    /\ NoSessions
    /\ FetchIdle
    /\ SemIdle
    /\ CloseIdle
    /\ CacheIdle
    /\ OtherIdle
    /\ sem = SemaphoreValue

PyPICall(spec, resps) ==
    /\ pypi = Uncalled
    /\ SetSessions(_get_session(Sessions, "PyPI"))
    /\ pypi' = [called |-> TRUE, spec |-> spec, resps |-> resps,
                requests |-> PyPIRequests(resps),
                returned |-> PyPIResolve(spec, resps[1])]
    /\ UNCHANGED <<sem, txn, cli, enrich_call, lateVars>>
    /\ UNCHANGED <<batchVars, fetchVars, semVars, closeVars, cacheVars>>

PyPIReturn ==
    /\ pypi # Uncalled
    /\ pypi' = Uncalled
    /\ UNCHANGED <<sem, txn, cli, enrich_call, lateVars>>
    /\ UNCHANGED <<batchVars, sessionVars, fetchVars, semVars, closeVars, cacheVars>>

NextPyPI ==
    \/ \E spec \in {CacheSpecList[1], CacheSpecList[4]},
          first \in IndexResponses,
          second \in {PyPIResponse("none", 200, TRUE, GitHubUrl, "MIT License"),
                      PyPIResponse("none", 404, FALSE, None, "")} :
            PyPICall(spec, <<first, second>>)
    \/ PyPIReturn

SpecPyPI == InitPyPI /\ [][NextPyPI]_vars

(***************************************************************************)
(* Properties of resolve and resolve_batch, under Spec.                    *)
(***************************************************************************)
Answered(t) == t.resp # NoResponse
Done(t) == t.pc = "done"
IsMetadata(x) == x.kind = "PackageMetadata"
Verified(x) == IsMetadata(x) /\ Len(x.licenses) > 0 /\ x.licenses[1].is_verified_file

\* C1: when the index step returns an absent result, resolve returns absent
\* and has called neither the enrichment nor the fallback resolver.
C1_IndexAbsentAborts ==
    \A i \in DOMAIN tasks :
        (Answered(tasks[i]) /\ tasks[i].metadata = None) =>
            /\ Done(tasks[i])
            /\ tasks[i].result = None
            /\ tasks[i].enriched = NotCalled
            /\ tasks[i].enrich_calls = 0
            /\ tasks[i].spdx_calls = 0

C1_Witness ==
    \E i \in DOMAIN tasks :
        Answered(tasks[i]) /\ tasks[i].resp.status = 404 /\ Done(tasks[i])

\* C2: when the index metadata has an unverified license and a repository URL
\* and enrichment returns metadata with a verified license, resolve returns the
\* enriched metadata: its license is verified and carries the enrichment's URL.
C2_VerifiedEnrichmentWins ==
    \A i \in DOMAIN tasks :
        (/\ Done(tasks[i])
         /\ IsMetadata(tasks[i].metadata)
         /\ tasks[i].metadata.repository_url # None
         /\ Len(tasks[i].metadata.licenses) > 0
         /\ ~tasks[i].metadata.licenses[1].is_verified_file
         /\ Verified(tasks[i].enriched)) =>
            /\ tasks[i].result = tasks[i].enriched
            /\ tasks[i].result.licenses[1].is_verified_file
            /\ tasks[i].result.licenses[1].url = tasks[i].enriched.licenses[1].url
            /\ tasks[i].result.licenses[1].url # tasks[i].metadata.licenses[1].url

C2_Witness ==
    \E i \in DOMAIN tasks :
        /\ Done(tasks[i])
        /\ IsMetadata(tasks[i].metadata)
        /\ Len(tasks[i].metadata.licenses) > 0
        /\ Verified(tasks[i].enriched)
        /\ tasks[i].result.licenses[1].url = LicenseFileUrl

\* C3: enrichment is not called before the index step has returned metadata;
\* once it has, enrichment has been called exactly once if the metadata has a
\* repository URL (with or without a license) and never if it has none.
C3_EnrichIffRepositoryUrl ==
    \A i \in DOMAIN tasks :
        /\ ~Answered(tasks[i]) => tasks[i].enrich_calls = 0
        /\ Answered(tasks[i]) =>
            tasks[i].enrich_calls =
                IF IsMetadata(tasks[i].metadata) /\ tasks[i].metadata.repository_url # None
                THEN 1 ELSE 0

C3_Witness ==
    /\ \E i \in DOMAIN tasks :
        /\ IsMetadata(tasks[i].metadata)
        /\ tasks[i].metadata.repository_url # None
        /\ Len(tasks[i].metadata.licenses) > 0
        /\ tasks[i].enrich_calls = 1
    /\ \E i \in DOMAIN tasks :
        /\ IsMetadata(tasks[i].metadata)
        /\ tasks[i].metadata.repository_url = None
        /\ Done(tasks[i])

\* C4: when enrichment returns an absent result, or metadata whose licenses
\* are empty or not verified, resolve returns the base metadata of the index
\* step, unchanged.
C4_UnverifiedEnrichmentKeepsBase ==
    \A i \in DOMAIN tasks :
        (/\ Done(tasks[i])
         /\ \/ tasks[i].enriched = None
            \/ /\ IsMetadata(tasks[i].enriched)
               /\ \A k \in DOMAIN tasks[i].enriched.licenses :
                    ~tasks[i].enriched.licenses[k].is_verified_file) =>
            tasks[i].result = tasks[i].metadata

C4_Witness ==
    /\ \E i \in DOMAIN tasks :
        /\ Done(tasks[i])
        /\ IsMetadata(tasks[i].enriched)
        /\ tasks[i].enriched.licenses = <<SpdxMIT>>
        /\ tasks[i].metadata.licenses = <<>>
    /\ \E i \in DOMAIN tasks : Done(tasks[i]) /\ tasks[i].enriched = None

\* C5: the mapping resolve_batch returns has exactly the input identifiers as
\* its keys, those that faulted or were absent included.
C5_OneEntryPerInput ==
    phase = "returned" => DOMAIN result_dict = {specs[k] : k \in DOMAIN specs}

C5_Witness ==
    /\ phase = "returned"
    /\ Len(specs) = 3
    /\ specs[1] = specs[2]
    /\ \E i \in DOMAIN tasks : tasks[i].result = Fault
    /\ \E i \in DOMAIN tasks : tasks[i].result = None

\* what resolve gives for task t's identifier when it is run alone on the
\* answers t received
Alone(t) == WaterfallResolve(t.spec, t.resp, t.enriched)

\* C6: resolve_batch never raises; the entry of an identifier whose resolution
\* raised is absent, and every other identifier has the result resolve gives it
\* alone, whatever the interleaving.
C6_FaultIsolation ==
    /\ phase # "raised"
    /\ phase = "returned" =>
        \A i \in DOMAIN tasks :
            result_dict[tasks[i].spec] =
                IF Alone(tasks[i]) = Fault THEN None ELSE Alone(tasks[i])

C6_Witness ==
    /\ phase = "returned"
    /\ Len(unique_specs) = 3
    /\ tasks[2].result = Fault
    /\ result_dict[tasks[2].spec] = None
    /\ IsMetadata(result_dict[tasks[1].spec])
    /\ IsMetadata(result_dict[tasks[3].spec])

\* C7: an identifier that occurs more than once in the input is resolved
\* exactly once, and all its occurrences map to the result of that resolution.
C7_DuplicatesResolvedOnce ==
    /\ \A spec \in Idents : resolve_calls[spec] <= 1
    /\ phase = "returned" =>
        \A k \in DOMAIN specs :
            /\ resolve_calls[specs[k]] = 1
            /\ \E i \in DOMAIN tasks :
                /\ tasks[i].spec = specs[k]
                /\ result_dict[specs[k]] =
                        IF tasks[i].result = Fault THEN None ELSE tasks[i].result

C7_Witness ==
    /\ phase = "returned"
    /\ \E k, l \in DOMAIN specs : k # l /\ specs[k] = specs[l]
    /\ \E k, l \in DOMAIN specs : specs[k] # specs[l]

(***************************************************************************)
(* Properties under SpecSem, SpecGitHub and SpecClose.                     *)
(***************************************************************************)
\* C8: at every moment at most 50 resolutions have started and not finished,
\* however many identifiers the batch has.
C8_AtMostFiftyInFlight == running <= 50

C8_Witness == running = 50 /\ waiting > 0

\* C9: a lookup that received a 403 on every attempt has issued exactly 4
\* requests when it returns, and it returns an absent result.
C9_AllForbiddenFourRequests ==
    (/\ fpc = "returned"
     /\ \A k \in DOMAIN responses : ~responses[k].fault /\ responses[k].status = 403) =>
        /\ requests = 4
        /\ fetched = None

\* C10: when a close of the orchestrator is over, every session a resolver
\* created has been closed exactly once, whether the close was the first or a
\* repeated one, an explicit one or the exit of the async context (normal or
\* after an exception), and whether or not a session was ever opened; no
\* session is ever closed twice.
C10_CloseClosesEachSessionOnce ==
    /\ \A r \in Resolvers : \A k \in DOMAIN closes[r] : closes[r][k] <= 1
    /\ cpc.at = "closed" =>
        \A r \in Resolvers : \A k \in DOMAIN closes[r] : closes[r][k] = 1

C10_Witness ==
    /\ cpc.at = "closed"
    /\ cpc.via = "aexit after exception"
    /\ close_calls = 2
    /\ \A r \in Resolvers : created[r] = 2

(***************************************************************************)
(* Properties of the cache, under SpecCache and SpecCacheBatch.            *)
(***************************************************************************)
KeyOf(pkg) == <<pkg.name, pkg.version>>
Unexpired(row) == now < row.expires_at.iso8601
Dumped(licenses) == json_dumps(Py("list", [i \in DOMAIN licenses |-> asdict(licenses[i])]))
\* the list a set stored in the row
StoredList(row) == CHOOSE licenses \in LicenseLists : row.license_data = Dumped(licenses)
Intact(row) == \E licenses \in LicenseLists : row.license_data = Dumped(licenses)
Hit(returned) == returned.raised = "none" /\ returned.value # None

\* C11: with a positive TTL, a get right after set(name, version, v) returns a
\* list equal to v, whatever the key held before (so of two sets on one key
\* only the second payload is retrievable), and the set leaves the rows of all
\* other keys as they were.
C11_UpsertRoundTrip ==
    [][(cache_op'.op = "set" /\ ttl_days > 0) =>
            /\ get(db', now', cache_op'.name, cache_op'.version)
                    = Returned(ListOf(cache_op'.licenses))
            /\ \A key \in CacheKeys \ {<<cache_op'.name, cache_op'.version>>} :
                    db'[key] = db[key]]_vars

C11_Witness ==
    /\ cache_op.op = "set"
    /\ ttl_days > 0
    /\ cache_op.before # None
    /\ cache_op.before.license_data = Dumped(<<SpdxMIT, ApacheFile>>)
    /\ cache_op.licenses = <<>>
    /\ db[<<cache_op.name, cache_op.version>>].license_data = Dumped(<<>>)
    /\ \E key \in CacheKeys :
            /\ key[1] = cache_op.name
            /\ key[2] # cache_op.version
            /\ db[key] # None

\* C12: get and get_batch return the list of a stored, intact record if and
\* only if now < expires_at: at now = expires_at the record is a miss, one day
\* earlier it is a hit.
C12_TtlBoundary ==
    /\ cache_op.op = "get" =>
            LET row == db[<<cache_op.name, cache_op.version>>]
            IN (row # None /\ Intact(row)) =>
                    /\ Hit(cache_op.returned) <=> now < row.expires_at.iso8601
                    /\ Hit(cache_op.returned) =>
                            cache_op.returned.value = ListOf(StoredList(row))
    /\ cache_op.op = "get_batch" =>
            \A i \in DOMAIN cache_op.packages :
                LET pkg == cache_op.packages[i]
                    row == db[KeyOf(pkg)]
                    got == cache_op.returned.value[pkg]
                IN (row # None /\ Intact(row)) =>
                        /\ got # None <=> now < row.expires_at.iso8601
                        /\ got # None => got = ListOf(StoredList(row))

C12_Witness ==
    /\ cache_op.op = "get_batch"
    /\ \E i, j \in DOMAIN cache_op.packages :
            LET p == cache_op.packages[i]
                q == cache_op.packages[j]
            IN /\ db[KeyOf(p)] # None /\ db[KeyOf(q)] # None
               /\ Intact(db[KeyOf(p)]) /\ Intact(db[KeyOf(q)])
               /\ db[KeyOf(p)].expires_at.iso8601 = now
               /\ cache_op.returned.value[p] = None
               /\ db[KeyOf(q)].expires_at.iso8601 = now + 1
               /\ cache_op.returned.value[q] # None

\* C13: for any table and any list of identifiers, the hits of get_batch are
\* the identifiers get hits, with the lists get returns, whatever the size of
\* the chunks; identifiers of the list with the same (name, version) and
\* different sources receive the same result.
C13_BatchEqualsSingleGets ==
    cache_op.op = "get_batch" =>
        LET result == cache_op.returned.value
            ids == Range(cache_op.packages)
            single(pkg) == get(db, now, pkg.name, pkg.version)
        IN /\ cache_op.returned.raised = "none"
           /\ {pkg \in DOMAIN result : result[pkg] # None} = {pkg \in ids : Hit(single(pkg))}
           /\ \A pkg \in DOMAIN result :
                    result[pkg] # None => result[pkg] = single(pkg).value
           /\ \A p, q \in ids : KeyOf(p) = KeyOf(q) => result[p] = result[q]
           /\ \A size \in 1..MaxPackages :
                    GetBatchChunked(db, now, cache_op.packages, size) = cache_op.returned

C13_Witness ==
    /\ cache_op.op = "get_batch"
    /\ \E i, j \in DOMAIN cache_op.packages :
            LET p == cache_op.packages[i]
                q == cache_op.packages[j]
            IN /\ KeyOf(p) = KeyOf(q)
               /\ p.source # q.source
               /\ cache_op.returned.value[p] = ListOf(<<SpdxMIT, ApacheFile>>)
               /\ cache_op.returned.value[q] = ListOf(<<SpdxMIT, ApacheFile>>)

C15_BatchKeysAreHits ==
    cache_op.op = "get_batch" =>
        LET result == cache_op.returned.value
            hits == {pkg \in Range(cache_op.packages) :
                        db[KeyOf(pkg)] # None /\ Unexpired(db[KeyOf(pkg)])}
        IN /\ DOMAIN result = hits
           /\ Cardinality(DOMAIN result) = Cardinality(hits)

\* C16: a LicenseCache constructed over a table with expired and unexpired
\* rows purges the expired ones: info() counts the unexpired rows only, the
\* unexpired keys are hits and the expired keys are misses.
C16_InitPurgesExpired ==
    cache_op.op = "init" =>
        /\ info(db).count =
                Cardinality({key \in CacheKeys : db[key] # None /\ Unexpired(db[key])})
        /\ \A key \in CacheKeys :
                (db[key] # None /\ Intact(db[key])) =>
                    (Hit(get(db, now, key[1], key[2])) <=> Unexpired(db[key]))

\* the table after one set call per item, in the order of the items
RECURSIVE SetEach(_, _, _, _, _)
SetEach(table, t, ttl, items, i) ==
    IF i > Len(items) THEN table
    ELSE SetEach(set(table, t, ttl, items[i][1].name, items[i][1].version, items[i][2]),
                 t, ttl, items, i + 1)

C18_ClearSemantics ==
    [][cache_op'.op = "clear" =>
            LET package == cache_op'.package
                version == cache_op'.version
            IN /\ (package = NoneStr /\ version = NoneStr) =>
                    \A key \in CacheKeys : db'[key] = None
               /\ (package # NoneStr /\ version = NoneStr) =>
                    \A key \in CacheKeys :
                        db'[key] = IF key[1] = package THEN None ELSE db[key]
               /\ (package # NoneStr /\ version # NoneStr) =>
                    \A key \in CacheKeys :
                        db'[key] = IF key = <<package, version>> THEN None ELSE db[key]
               /\ (package # NoneStr /\ version # NoneStr
                        /\ (<<package, version>> \notin CacheKeys
                                \/ db[<<package, version>>] = None)) => db' = db
               /\ (package # NoneStr /\ \A key \in CacheKeys : key[1] = package => db[key] = None)
                        => db' = db]_vars

C18_Witness ==
    /\ cache_op.op = "clear"
    /\ cache_op.package = "requests"
    /\ cache_op.version = "2.31.0"
    /\ db[<<"requests", "2.31.0">>] = None
    /\ db[<<"requests", "2.30.0">>] # None
    /\ db[<<"aiohttp", "3.9.0">>] # None

\* C19: a stored record whose license_data no set wrote is a miss of get and of
\* get_batch, never a fault, and the other keys of the same get_batch call get
\* what get returns for them.
C19_CorruptIsMiss ==
    /\ cache_op.op = "get" =>
            (IsCorrupt(db[<<cache_op.name, cache_op.version>>]) =>
                cache_op.returned = Returned(None))
    /\ cache_op.op = "get_batch" =>
            /\ cache_op.returned.raised = "none"
            /\ \A pkg \in Range(cache_op.packages) :
                    IF IsCorrupt(db[KeyOf(pkg)])
                    THEN cache_op.returned.value[pkg] = None
                    ELSE (db[KeyOf(pkg)] # None /\ Unexpired(db[KeyOf(pkg)])) =>
                            cache_op.returned.value[pkg] = ListOf(StoredList(db[KeyOf(pkg)]))

\* C20: get and get_batch leave every row of the table as it is, expired and
\* damaged rows included, so info() counts the same rows after a read as
\* before, and it counts every row.
C20_ReadsLeaveTheTable ==
    [][/\ cache_op'.op \in {"get", "get_batch"} =>
            /\ db' = db
            /\ info(db').count = info(db).count
       /\ cache_op'.op = "info" =>
            cache_op'.returned.count = Cardinality({key \in CacheKeys : db'[key] # None})]_vars

C20_Witness ==
    /\ cache_op.op = "get"
    /\ db[<<cache_op.name, cache_op.version>>] # None
    /\ ~Unexpired(db[<<cache_op.name, cache_op.version>>])
    /\ cache_op.returned = Returned(None)
    /\ \E key \in CacheKeys : IsCorrupt(db[key])

\* C21: every row set or set_batch writes has resolved_at equal to the time of
\* the write and expires_at equal to resolved_at + ttl_days, the TTL of the
\* instance (30 days when the constructor got none), also when it overwrites a
\* row; the rows one set_batch call writes carry the same two stamps.
C21_StampsAreWriteTimePlusTtl ==
    [][/\ cache_op'.op = "set" =>
            LET row == db'[<<cache_op'.name, cache_op'.version>>]
            IN /\ row # None
               /\ row.resolved_at = [iso8601 |-> now]
               /\ row.expires_at = [iso8601 |-> now + ttl_days]
       /\ cache_op'.op = "set_batch" =>
            \A i, j \in DOMAIN cache_op'.items :
                LET row == db'[KeyOf(cache_op'.items[i][1])]
                    other == db'[KeyOf(cache_op'.items[j][1])]
                IN /\ row # None /\ other # None
                   /\ row.resolved_at = [iso8601 |-> now]
                   /\ row.expires_at = [iso8601 |-> now + ttl_days]
                   /\ row.resolved_at = other.resolved_at
                   /\ row.expires_at = other.expires_at]_vars

C21_Witness ==
    /\ cache_op.op = "set_batch"
    /\ ttl_days = DEFAULT_TTL_DAYS
    /\ now > 0
    /\ Len(cache_op.items) = 2
    /\ KeyOf(cache_op.items[1][1]) # KeyOf(cache_op.items[2][1])
    /\ db[KeyOf(cache_op.items[1][1])].expires_at = [iso8601 |-> now + 30]
    /\ db[KeyOf(cache_op.items[2][1])].expires_at = [iso8601 |-> now + 30]
    /\ \E key \in CacheKeys :
            db[key] # None /\ db[key].resolved_at = [iso8601 |-> 0]

\* C22: with a writer and a reader in different processes, the table the
\* reader sees changes only at the writer's conn.commit(), and then by the
\* whole effect of the set, set_batch or clear that committed: a key shows its
\* old row (or none) or its complete new row, never part of a call.
C22_WritesAppearAtCommit ==
    [][db' # db =>
        /\ TxnExecuted
        /\ txn' = NoTxn
        /\ db' = (CASE txn.op = "set" ->
                         set(db, txn.at, ttl_days, txn.name, txn.version, txn.licenses)
                    [] txn.op = "set_batch" ->
                         set_batch(db, txn.at, ttl_days, txn.items)
                    [] txn.op = "clear" ->
                         clear(db, txn.package, txn.version))]_vars

C22_Witness ==
    /\ txn.op = "set_batch"
    /\ Len(txn.items) = 2
    /\ txn.done = 1
    /\ cache_op.op = "get"
    /\ <<cache_op.name, cache_op.version>> = KeyOf(txn.items[1][1])
    /\ txn.view[KeyOf(txn.items[1][1])] # None
    /\ Unexpired(txn.view[KeyOf(txn.items[1][1])])
    /\ cache_op.returned = Returned(None)

\* C23: in _scan_and_resolve, an identifier whose cache lookup before the
\* resolution is a hit (get returns a list, not None: an unexpired record of its
\* name and version exists) is not in the list handed to resolve_batch.
C23_HitsAreNotResolved ==
    cli.ran =>
        \A spec \in Range(cli.packages) :
            cli.lookup[spec] # None => spec \notin Range(cli.to_resolve)

\* a run of _scan_and_resolve
FlowStep == ~cli.ran /\ cli'.ran

Licensed(results, key) ==
    {item \in Range(results) :
        KeyOf(item[1]) = key /\ item[2] # None /\ item[2].licenses # <<>>}

\* C24: a run with the cache writes a row for a result exactly when the result
\* is metadata with at least one license: the other rows stay as they were, so
\* the run stores no empty license list; and an identifier whose row holds a
\* non-empty list and has not expired is not resolved again: the run returns
\* the stored licenses for it.
C24_WriteBackOnlyLicensed ==
    [][FlowStep =>
        /\ \A key \in CacheKeys :
            IF cli'.use_cache /\ Licensed(cli'.results, key) # {}
            THEN /\ db'[key] # None
                 /\ db'[key].resolved_at = [iso8601 |-> now]
                 /\ \E item \in Licensed(cli'.results, key) :
                        db'[key].license_data = Dumped(item[2].licenses)
            ELSE db'[key] = db[key]
        /\ \A key \in CacheKeys :
            db'[key] # db[key] => LoadLicenses(db'[key].license_data).value # <<>>
        /\ \A spec \in Range(cli'.packages) :
            LET row == db[KeyOf(spec)]
            IN (/\ cli'.use_cache
                /\ row # None
                /\ Unexpired(row)
                /\ LoadLicenses(row.license_data).raised = "none"
                /\ LoadLicenses(row.license_data).value # <<>>)
               => /\ spec \notin Range(cli'.to_resolve)
                  /\ cli'.returned[spec].licenses =
                        LoadLicenses(row.license_data).value]_vars

C24_Witness ==
    /\ cli.ran
    /\ cli.use_cache
    /\ now = 1
    /\ Len(cli.packages) = 2
    /\ \E spec \in Range(cli.packages) :
        /\ db[KeyOf(spec)] # None
        /\ db[KeyOf(spec)].resolved_at = [iso8601 |-> 0]
        /\ db[KeyOf(spec)].license_data = Dumped(<<SpdxMIT>>)
        /\ spec \notin Range(cli.to_resolve)
        /\ cli.returned[spec].licenses = <<SpdxMIT>>
    /\ \E item \in Range(cli.results) :
        /\ item[2] # None
        /\ item[2].licenses = <<>>
        /\ db[KeyOf(item[1])] = None

\* C25: enrich does not raise on an ordinary failure: whatever the statuses,
\* the network faults and the shape of a 200 payload (no license member, a
\* null one, spdx_id, name or html_url missing or empty), it returns None or
\* metadata.
C25_EnrichNeverRaises ==
    enrich_call.called => enrich_call.returned # Fault

\* C26: an enrich call that succeeds returns a new record with exactly one
\* license, which has is_verified_file = True, the payload's html_url and the
\* payload's spdx_id and name as they came, and with the name, version,
\* description, homepage, repository_url, author and is_root_project of the
\* metadata it was given; that metadata, its license list included, is as it
\* was.
C26_EnrichResult ==
    (enrich_call.called /\ enrich_call.returned \notin {None, Fault}) =>
        LET json == responses[Len(responses)].json
            new == enrich_call.returned
            old == enrich_call.metadata
        IN /\ Len(new.licenses) = 1
           /\ new.licenses[1].is_verified_file = TRUE
           /\ new.licenses[1].url = json.html_url
           /\ new.licenses[1].spdx_id = json.license.spdx_id
           /\ new.licenses[1].name = json.license.name
           /\ new.name = old.name
           /\ new.version = old.version
           /\ new.description = old.description
           /\ new.homepage = old.homepage
           /\ new.repository_url = old.repository_url
           /\ new.author = old.author
           /\ new.is_root_project = old.is_root_project
           /\ old \in EnrichInputs

C26_Witness ==
    /\ enrich_call.called
    /\ enrich_call.metadata.licenses = <<SpdxMIT>>
    /\ enrich_call.metadata.is_root_project
    /\ enrich_call.metadata.author = "Kenneth Reitz"
    /\ enrich_call.returned \notin {None, Fault}
    /\ enrich_call.returned.licenses = <<ApacheFile>>
    /\ enrich_call.returned.author = "Kenneth Reitz"
    /\ Len(responses) = 2

\* C27: the wait before the retry that follows the k-th 403 in a row (k = 0,
\* 1, 2) is the number of seconds of the Retry-After header when the response
\* has one, 2^k seconds (1, 2, 4) when it has none; no more than three waits
\* happen, and none follows the response the lookup returns on, the 403 that
\* exhausts the retries included.
C27_BackoffDurations ==
    /\ Len(sleeps) <= 3
    /\ Len(sleeps) = (IF fpc \in {"returned", "enriched"} /\ responses # <<>>
                      THEN Len(responses) - 1 ELSE Len(responses))
    /\ \A k \in DOMAIN sleeps :
        /\ responses[k].status = 403
        /\ responses[k].retry_after = "5" => sleeps[k] = 5
        /\ responses[k].retry_after \in {NoneStr, ""} =>
                sleeps[k] = (CASE k = 1 -> 1 [] k = 2 -> 2 [] k = 3 -> 4)
        /\ responses[k].retry_after # HttpDate

C27_Witness ==
    /\ fpc = "returned"
    /\ sleeps = <<1, 5, 4>>
    /\ Len(responses) = 4
    /\ responses[4].status = 403
    /\ fetched = None

\* the response a resolve call read
Answer == pypi.resps[1]

\* C28: a resolve of the index resolver that is answered by a 404, another
\* status that is not 200, a network fault or a body that is not JSON returns
\* None, without raising, after exactly one request.
C28_IndexFailureIsAbsent ==
    (/\ pypi.called
     /\ \/ Answer.fault # "none"
        \/ Answer.status # 200
        \/ ~Answer.json_ok) =>
        /\ pypi.returned = None
        /\ pypi.requests = 1

C28_Witness ==
    /\ pypi.called
    /\ Answer.fault = "ClientError"
    /\ pypi.resps[2].status = 200
    /\ pypi.resps[2].json_ok
    /\ pypi.returned = None
    /\ pypi.requests = 1

\* the first classifier under "License" whose last part is recognized
FirstRecognized(classifiers) ==
    LET found == {i \in DOMAIN classifiers :
                    /\ Len(classifiers[i]) >= 2
                    /\ classifiers[i][1] = "License"
                    /\ _normalize_license_text(classifiers[i][Len(classifiers[i])]) # None}
    IN IF found = {} THEN <<>>
       ELSE <<_normalize_license_text(
                LET i == CHOOSE i \in found : \A j \in found : i <= j
                IN classifiers[i][Len(classifiers[i])])>>

\* C29: a 200 response with an info object gives metadata, not None, whatever
\* the license member (missing, null, empty, UNKNOWN, not recognized) and the
\* classifiers are: its license is the one of the license member when that is
\* present, not UNKNOWN and recognized, else the one of the classifiers, and
\* the list is empty when nothing is recognized.
C29_PayloadAlwaysGivesMetadata ==
    (/\ pypi.called
     /\ Answer.fault = "none" /\ Answer.status = 200 /\ Answer.json_ok
     /\ Answer.data.kind = "dict"
     /\ Answer.data.info.kind = "dict") =>
        LET fields == Answer.data.info
            direct == IF fields.license \in {Missing, NoneStr} THEN None
                      ELSE _normalize_license_text(strip(fields.license))
        IN /\ pypi.returned # None
           /\ pypi.returned.licenses =
                (IF direct # None THEN <<direct>>
                 ELSE IF fields.classifiers.kind # "list" THEN <<>>
                 ELSE FirstRecognized(fields.classifiers.items))

\* C30: metadata of the index resolver has at most one license, and that one
\* has is_verified_file = False and the URL
\* https://spdx.org/licenses/<spdx_id>.html of its own spdx_id.
C30_OneGenericLicense ==
    (pypi.called /\ pypi.returned # None) =>
        /\ Len(pypi.returned.licenses) <= 1
        /\ \A i \in DOMAIN pypi.returned.licenses :
            LET link == pypi.returned.licenses[i]
            IN /\ link.is_verified_file = FALSE
               /\ link.url = "https://spdx.org/licenses/" \o link.spdx_id \o ".html"

C30_Witness ==
    /\ pypi.called
    /\ pypi.returned # None
    /\ Answer.data.info.kind = "dict"
    /\ Answer.data.info.classifiers.kind = "list"
    /\ Len(Answer.data.info.classifiers.items) = 3
    /\ Len(pypi.returned.licenses) = 1
    /\ pypi.returned.licenses[1].name = "Apache 2.0 licensed"
    /\ pypi.returned.licenses[1].spdx_id = "Apache-2.0"
    /\ pypi.returned.licenses[1].url = "https://spdx.org/licenses/Apache-2.0.html"

SameKeyOtherSource(a, b) ==
    a.name = b.name /\ a.version = b.version /\ a.source # b.source

\* C32 as stated: two identifiers of one batch with the same name and version
\* but different source tags are collapsed: the resolution runs once for the
\* pair and both identifiers receive the same result.
C32_DedupIgnoresProvenance ==
    phase = "returned" =>
        \A k, l \in DOMAIN specs :
            SameKeyOtherSource(specs[k], specs[l]) =>
                /\ resolve_calls[specs[k]] + resolve_calls[specs[l]] = 1
                /\ result_dict[specs[k]] = result_dict[specs[l]]

\* C32, amended: deduplication compares whole identifiers (name, version and
\* source tag).  Two identifiers of one batch with the same name and version
\* but different source tags are not collapsed: the resolution runs once for
\* each of them, in two tasks, and each receives the result of its own task.
C32_DedupKeepsProvenance ==
    phase = "returned" =>
        \A k, l \in DOMAIN specs :
            SameKeyOtherSource(specs[k], specs[l]) =>
                /\ resolve_calls[specs[k]] = 1
                /\ resolve_calls[specs[l]] = 1
                /\ \E i, j \in DOMAIN tasks :
                    /\ i # j
                    /\ tasks[i].spec = specs[k]
                    /\ tasks[j].spec = specs[l]
                    /\ result_dict[specs[k]] =
                            IF tasks[i].result = Fault THEN None ELSE tasks[i].result
                    /\ result_dict[specs[l]] =
                            IF tasks[j].result = Fault THEN None ELSE tasks[j].result

C32_Witness ==
    /\ phase = "returned"
    /\ \E k, l \in DOMAIN specs :
        /\ SameKeyOtherSource(specs[k], specs[l])
        /\ result_dict[specs[k]] = None
        /\ Verified(result_dict[specs[l]])

(***************************************************************************)
(* Properties of the check command, under SpecCheck.                       *)
(***************************************************************************)
\* the (package, license) pairs of the results the run compared
Compared == {<<i, j>> \in (DOMAIN check_run.scanned.results) \X (1..2) :
                /\ check_run.scanned.results[i][2] # None
                /\ j <= Len(check_run.scanned.results[i][2].licenses)}

\* C33: in a run that compares the results with one list, a license of a
\* package is a violation exactly when the deny-list holds its SPDX id or the
\* allow-list does not; a package whose result is absent or has no license is
\* listed as unknown and yields no violation; the exit code is 1 when there is
\* a violation and 0 when there is none.
C33_ComplianceCheck ==
    (check_run.ran /\ check_run.exit.stage = "checked") =>
        LET results == check_run.scanned.results
            deny == Truthy(check_run.forbidden)
            listed == split_set(IF deny THEN check_run.forbidden ELSE check_run.allowed)
            id(pair) == results[pair[1]][2].licenses[pair[2]].spdx_id
            bad == {pair \in Compared : IF deny THEN id(pair) \in listed
                                                ELSE id(pair) \notin listed}
            nolicense == {i \in DOMAIN results :
                            \/ results[i][2] = None
                            \/ results[i][2].licenses = <<>>}
        IN /\ Len(check_run.exit.violations) = Cardinality(bad)
           /\ Range(check_run.exit.violations) =
                {<<results[pair[1]][1].name, results[pair[1]][1].version, id(pair)>> :
                    pair \in bad}
           /\ Len(check_run.exit.unknown) = Cardinality(nolicense)
           /\ Range(check_run.exit.unknown) = {results[i][1].name : i \in nolicense}
           /\ check_run.exit.exit_code = IF bad # {} THEN 1 ELSE 0

C33_Witness ==
    /\ check_run.ran
    /\ check_run.allowed = "MIT"
    /\ ~check_run.scanned.raised
    /\ Len(check_run.scanned.results) = 2
    /\ check_run.scanned.results[1][2] = None
    /\ check_run.scanned.results[2][2] # None
    /\ check_run.scanned.results[2][2].licenses = <<SpdxMIT, ApacheFile>>
    /\ check_run.exit.exit_code = 1
    /\ check_run.exit.violations = <<(<<"aiohttp", "3.9.0", "Apache-2.0">>)>>
    /\ check_run.exit.unknown = <<"requests">>

(***************************************************************************)
(* Properties of the fallback resolver, under SpecSPDX.                    *)
(***************************************************************************)
\* C34: SPDXResolver.resolve returns an absent result when the SPDX id is left
\* out, empty or whitespace-only; otherwise it returns metadata with the
\* identifier's name and version and exactly one license: its spdx id is the
\* trimmed input, its URL https://spdx.org/licenses/<id>.html, it is not a
\* verified file, and its name is the static table's or, for an id the table
\* does not hold, the id itself.
C34_FallbackResolver ==
    spdx_call.called =>
        IF spdx_call.spdx_id = NoneStr \/ spdx_call.spdx_id \in BlankIds
        THEN spdx_call.returned = None
        ELSE LET trimmed == strip(spdx_call.spdx_id)
                 returned == spdx_call.returned
             IN /\ returned # None
                /\ returned.name = spdx_call.spec.name
                /\ returned.version = spdx_call.spec.version
                /\ Len(returned.licenses) = 1
                /\ returned.licenses[1].spdx_id = trimmed
                /\ returned.licenses[1].url =
                        "https://spdx.org/licenses/" \o trimmed \o ".html"
                /\ returned.licenses[1].is_verified_file = FALSE
                /\ returned.licenses[1].name =
                        IF trimmed \in DOMAIN SPDX_NAMES THEN SPDX_NAMES[trimmed]
                        ELSE trimmed

C34_Witness ==
    /\ spdx_call.called
    /\ spdx_call.spdx_id = "  Apache-2.0"
    /\ spdx_call.returned # None
    /\ spdx_call.returned.licenses =
            <<LicenseLink("Apache-2.0", "Apache License 2.0",
                          "https://spdx.org/licenses/Apache-2.0.html", FALSE)>>

(***************************************************************************)
(* Properties of the source-host lookup, under SpecGitHub.                 *)
(***************************************************************************)
Forbidden(resp) == ~resp.fault /\ resp.status = 403

\* C35: whatever the host answers, a lookup issues at most 4 requests and
\* returns; every request after the first follows a 403, so the first response
\* that is not a 403 is the last one and decides the outcome: a 200 (also one
\* that follows three 403) yields its payload, any other status or a network
\* fault an absent result.
C35_BoundedLookup ==
    /\ [](/\ requests <= 4
          /\ Len(responses) = requests
          /\ \A k \in DOMAIN responses : k < Len(responses) => Forbidden(responses[k])
          /\ fpc = "sleep" => Forbidden(responses[Len(responses)])
          /\ fpc = "returned" =>
                LET last == responses[Len(responses)]
                IN IF ~last.fault /\ last.status = 200 /\ last.json # NoJson
                   THEN fetched = last.json
                   ELSE fetched = None)
    /\ <>(fpc \in {"returned", "enriched"})

C35_Witness ==
    /\ fpc = "returned"
    /\ requests = 4
    /\ \A k \in 1..3 : Forbidden(responses[k])
    /\ responses[4] = Ok200
    /\ fetched = Ok200.json

(***************************************************************************)
(* Properties of the order of the resolvers, under SpecInit.               *)
(***************************************************************************)
\* the position of a resolver in the orchestrator's resolver list
Position(r) == CHOOSE k \in DOMAIN waterfall.resolvers : waterfall.resolvers[k] = r

\* C36: whatever priorities the resolvers handed to the constructor report,
\* the orchestrator's resolver list is in ascending priority order, and
\* resolve invokes the sources in the order of that list.
C36_PriorityOrder ==
    waterfall.called =>
        /\ \A i, j \in DOMAIN waterfall.resolvers : i < j =>
                waterfall.priority[waterfall.resolvers[i]]
                    <= waterfall.priority[waterfall.resolvers[j]]
        /\ \A i, j \in DOMAIN waterfall.invoked : i < j =>
                Position(waterfall.invoked[i]) < Position(waterfall.invoked[j])

(***************************************************************************)
(* Properties of the sessions during a batch, under Spec.                  *)
(***************************************************************************)
\* C37: during a batch a network resolver has no session until a resolution
\* needs one, and from then on exactly one, open and shared: however the
\* resolutions interleave, the second and later calls create no session.
C37_OneSessionPerResolver ==
    /\ \A r \in Resolvers :
        /\ created[r] <= 1
        /\ session[r] = created[r]
        /\ created[r] = 1 => closes[r] = <<0>>
    /\ created["PyPI"] = IF \E i \in DOMAIN tasks : tasks[i].pc # "new" THEN 1 ELSE 0
    /\ created["GitHub"] =
            IF /\ github_resolver = "GitHubResolver"
               /\ \E i \in DOMAIN tasks :
                    tasks[i].enrich_calls = 1 /\ EnrichFetches(tasks[i].metadata)
            THEN 1 ELSE 0

C37_Witness ==
    /\ github_resolver = "GitHubResolver"
    /\ Len(tasks) = 3
    /\ \A i \in DOMAIN tasks : tasks[i].pc = "enrich"
    /\ created = [r \in Resolvers |-> 1]
    /\ session = [r \in Resolvers |-> 1]

(***************************************************************************)
(* Properties of a batch with more tasks than slots, under SpecSemLive.    *)
(***************************************************************************)
\* C38: with more unique identifiers than the ceiling of 50, a resolution
\* that raises or returns an absent result gives its slot back like any other
\* (the slots taken are those of the running resolutions), so every waiting
\* identifier is eventually resolved and resolve_batch eventually returns.
C38_BatchEventuallyReturns ==
    /\ [](sem = 50 - running)
    /\ <>(phase = "returned" /\ waiting = 0 /\ running = 0)

C38_Witness ==
    /\ phase = "returned"
    /\ finished > 50
    /\ failed = finished

(***************************************************************************)
(* Properties of a batch whose enrichment reads the source host, under     *)
(* Spec.                                                                   *)
(***************************************************************************)
\* C39: in resolve_batch with the GitHubResolver, a package whose index step
\* returned metadata is never reported absent, whatever the source host
\* answers: its entry is the base metadata or the verified enriched metadata.
C39_HostNeverMakesAbsent ==
    (phase = "returned" /\ github_resolver = "GitHubResolver") =>
        \A i \in DOMAIN tasks :
            IsMetadata(tasks[i].metadata) =>
                LET entry == result_dict[tasks[i].spec]
                IN /\ entry # None
                   /\ \/ entry = tasks[i].metadata
                      \/ Verified(entry) /\ entry = tasks[i].enriched

(***************************************************************************)
(* Properties of a Retry-After header that is not a number, under          *)
(* SpecGitHub.                                                             *)
(***************************************************************************)
\* C40: a 403 whose Retry-After value is not an integer number of seconds (an
\* HTTP date, a decimal fraction) ends the lookup: it is the last response,
\* no request and no wait follows it, and the lookup has returned an absent
\* result, not raised, whatever is left of the retry budget.
C40_BadRetryAfterEndsLookup ==
    \A k \in DOMAIN responses :
        (Forbidden(responses[k]) /\ responses[k].retry_after \in {HttpDate, "1.5"}) =>
            /\ k = Len(responses)
            /\ requests = k
            /\ Len(sleeps) = k - 1
            /\ fpc \in {"returned", "enriched"}
            /\ fetched = None

C40_Witness ==
    /\ fpc = "returned"
    /\ Len(responses) = 2
    /\ Forbidden(responses[1]) /\ responses[1].retry_after = NoneStr
    /\ Forbidden(responses[2]) /\ responses[2].retry_after = HttpDate
    /\ requests = 2
    /\ sleeps = <<1>>
    /\ fetched = None

====
